---- MODULE Spec2Model ----
(***************************************************************************)
(* Slot-lease coordinator of atomic_reactor/utils/remote_host.py:          *)
(* SlotData, HostSlot, RemoteHost (two-session flock protocol) and         *)
(* RemoteHostsPool, with the remote host's slot files and flock state.     *)
(***************************************************************************)
EXTENDS Integers, Sequences, FiniteSets, TLC

(* ------------------------------ bounds --------------------------------- *)
\* slots of host 1 (RemoteHost.slots is configuration)
NSlots == 2
\* hosts in the pool's configuration
NHosts == 2
\* SSH faults the environment may inject in one behaviour
MaxFaults == 1
\* longest prid a sequential caller passes
MaxPridLen == 2
\* distinct values datetime.utcnow().isoformat() takes in one behaviour
NStamps == 2

(* ------------------------- program constants --------------------------- *)
MAX_RETRIES == 3
FLOCK_CONFLICT == 42

(* ------------------------------ strings -------------------------------- *)
\* A string is a sequence of symbols.  "@" is the separator, " " stands for
\* any whitespace (what str.strip removes), "a" and "b" for other
\* characters, and each element of AllStamps for one complete ISO-8601
\* datetime text such as 2022-02-15T10:12:13.780426.
StampNames == <<"t1", "t2", "t3", "t4">>
Stamps == {StampNames[i] : i \in 1..NStamps}
AllStamps == {StampNames[i] : i \in 1..Len(StampNames)}
Whitespace == {" "}

RECURSIVE lstrip(_)
lstrip(s) == IF s # <<>> /\ Head(s) \in Whitespace THEN lstrip(Tail(s)) ELSE s

RECURSIVE rstrip(_)
rstrip(s) ==
    IF s # <<>> /\ s[Len(s)] \in Whitespace
    THEN rstrip(SubSeq(s, 1, Len(s) - 1))
    ELSE s

\* str.strip() as applied by SSHRetrySession.run to a command's output
strip(s) == rstrip(lstrip(s))

\* s.split("@")
RECURSIVE split(_)
split(s) ==
    IF \E i \in 1..Len(s) : s[i] = "@"
    THEN LET i == CHOOSE k \in 1..Len(s) :
                     s[k] = "@" /\ \A j \in 1..(k - 1) : s[j] # "@"
         IN  <<SubSeq(s, 1, i - 1)>> \o split(SubSeq(s, i + 1, Len(s)))
    ELSE <<s>>

\* "".join(values)
RECURSIVE join(_)
join(values) == IF values = <<>> THEN <<>> ELSE Head(values) \o join(Tail(values))

\* faulty variant: only a timestamp of the current run counts as valid, an
\* older one makes the slot data invalid
fromisoformat_ok_if_recent(ts) == Len(ts) = 1 /\ ts[1] \in Stamps

\* datetime.fromisoformat(ts) does not raise ValueError
fromisoformat_ok(ts) == Len(ts) = 1 /\ ts[1] \in AllStamps

(* ------------------------------ SlotData ------------------------------- *)
\* Optional[str]
None == [some |-> FALSE, val |-> <<>>]
Str(s) == [some |-> TRUE, val |-> s]
\* Python truthiness of an Optional[str]
truthy(o) == o.some /\ o.val # <<>>

SlotData(prid, timestamp) == [prid |-> prid, timestamp |-> timestamp]

\* faulty variant: the string is stripped before it is split
from_string_stripped(string) ==
    IF ~truthy(string) \/ strip(string.val) = <<>>
    THEN SlotData(None, None)
    ELSE LET values == split(strip(string.val))
         IN  SlotData(Str(values[1]), Str(join(Tail(values))))

from_string(string) ==
    IF ~truthy(string)
    THEN SlotData(None, None)
    ELSE LET values == split(string.val)
         IN  SlotData(Str(values[1]), Str(join(Tail(values))))

is_empty(d) == ~(truthy(d.prid) \/ truthy(d.timestamp))

is_valid(d) ==
    IF is_empty(d) THEN TRUE
    ELSE IF ~d.prid.some \/ (\E i \in 1..Len(d.prid.val) : d.prid.val[i] = "@")
    THEN FALSE
    ELSE d.timestamp.some /\ fromisoformat_ok(d.timestamp.val)

\* an Optional[str] inside an f-string; "None" stands for the text None
format(o) == IF o.some THEN o.val ELSE <<"None">>

to_string(d) ==
    IF is_empty(d) THEN <<>>
    ELSE format(d.prid) \o <<"@">> \o format(d.timestamp)

(* ---------------------------- configuration --------------------------- *)
Clients == {"c1", "c2"}
NoClient == "none"
Hosts == 1..NHosts
\* RemoteHost.slots of each configured host
slots(h) == IF h = 1 THEN NSlots ELSE 1
SlotIds(h) == 0..(slots(h) - 1)

\* faulty variant: only the upper end of the range is checked
is_valid_slot_id_below_slots(h, slot_id) == slot_id < slots(h)

is_valid_slot_id(h, slot_id) == slot_id \in SlotIds(h)

VARIABLES
    slotFile,    \* slotFile[h][s]: content of <slots_dir>/slot_<s> on host h
    flockHeld,   \* flockHeld[h][s]: client whose `flock ... cat` holds slot_<s>.lock
    slot0,       \* the slot files as they were at the start
    plan,        \* plan[c]: the calls client c makes, in order
    callNo,      \* callNo[c]: index in plan[c] of the current (or last) call
    hist,        \* hist[c]: what each finished call of c returned
    args,        \* args[c]: op, host, slot, prid of the RemoteHost call in progress
    pc,          \* pc[c]: position inside RemoteHost.lock / RemoteHost.unlock
    tries,       \* tries[c]: attempts of _get_blocking_session_with_locked_slot
    outerTries,  \* outerTries[c]: attempts of lock()/unlock() made by its backoff
    sess,        \* sess[c]: state of slot_session, lock_session and lock_stdin
    locked,      \* locked[c]: the local `locked` / `unlocked`
    exc,         \* exc[c]: exception in flight
    result,      \* result[c]: what the last RemoteHost.lock/unlock returned
    log,         \* log[c]: SSH commands issued during the current call
    pre,         \* pre[c]: content of the call's slot file when the call started
    faults,      \* SSH faults injected so far
    faulted,     \* faulted[c]: an SSH fault hit the current call of c
    poolHosts,   \* RemoteHostsPool.hosts: the hosts of the pool
    pool         \* pool[c]: the locals of lock_resource run by client c

hostVars == <<slotFile, flockHeld>>
callVars == <<args, pc, tries, outerTries, sess, locked, exc, result>>
planVars == <<slot0, plan, pre, poolHosts, pool>>
faultVars == <<faults, faulted>>
vars == <<slotFile, flockHeld, slot0, plan, callNo, hist, args, pc, tries,
          outerTries, sess, locked, exc, result, log, pre, faults, faulted,
          poolHosts, pool>>

\* lock_resource not running
NoPool == [ppc |-> "none", caller |-> "none", value |-> {}, hosts |-> <<>>, i |-> 0, slot_id |-> 0,
           available_slots |-> <<>>, resources |-> <<>>, r |-> 0, k |-> 0,
           skipped |-> {}, down |-> {}, attempts |-> <<>>, ret |-> "none", lease |-> [host |-> 0, slot |-> 0]]
NoSessions == [slot |-> "none", lock |-> "none", stdin |-> "none"]
NoArgs == [op |-> "none", host |-> 1, slot |-> 0, prid |-> <<>>]
Call(op, h, s, prid) == [op |-> op, host |-> h, slot |-> s, prid |-> prid]

\* the slot the current call of c works on
H(c) == args[c].host
S(c) == args[c].slot

Entry(h, cmd, data) == [host |-> h, cmd |-> cmd, data |-> data]
Logged(c, cmd, data) == [log EXCEPT ![c] = Append(@, Entry(H(c), cmd, data))]

\* HostSlot._read: `touch <path> && cat <path>`, output stripped by run()
read(h, s) == strip(slotFile[h][s])
\* HostSlot._data
data(h, s) == from_string(Str(read(h, s)))

\* an SSH fault hits client c (at most MaxFaults in a behaviour)
Fault(c) ==
    /\ faults < MaxFaults
    /\ faults' = faults + 1
    /\ faulted' = [faulted EXCEPT ![c] = TRUE]
NoFault == UNCHANGED faultVars

(* ------------------- RemoteHost.lock / RemoteHost.unlock --------------- *)
Goto(c, loc) == pc' = [pc EXCEPT ![c] = loc]
Raise(c, kind) == exc' = [exc EXCEPT ![c] = kind]

\* A client starts the next call of its plan (lock or unlock on a host).
StartCall(c) ==
    /\ pc[c] = "idle"
    /\ pool[c].ppc = "none"
    /\ callNo[c] < Len(plan[c])
    /\ plan[c][callNo[c] + 1].op \in {"lock", "unlock"}
    /\ callNo' = [callNo EXCEPT ![c] = @ + 1]
    /\ args' = [args EXCEPT ![c] = plan[c][callNo[c] + 1]]
    /\ Goto(c, "check_id")
    /\ tries' = [tries EXCEPT ![c] = 0]
    /\ outerTries' = [outerTries EXCEPT ![c] = 0]
    /\ sess' = [sess EXCEPT ![c] = NoSessions]
    /\ locked' = [locked EXCEPT ![c] = FALSE]
    /\ exc' = [exc EXCEPT ![c] = "none"]
    /\ result' = [result EXCEPT ![c] = "none"]
    /\ log' = [log EXCEPT ![c] = <<>>]
    /\ LET k == plan[c][callNo[c] + 1]
       IN  pre' = [pre EXCEPT ![c] = slotFile[k.host][k.slot]]
    /\ faulted' = [faulted EXCEPT ![c] = FALSE]
    /\ UNCHANGED <<hostVars, slot0, plan, hist, faults, poolHosts, pool>>

\* lock()/unlock(): `if not self._is_valid_slot_id(slot_id): return False`,
\* then `locked = False`
RemoteHost_check_id(c) ==
    /\ pc[c] = "check_id"
    /\ Goto(c, IF is_valid_slot_id(H(c), S(c)) THEN "open_slot" ELSE "return")
    /\ locked' = [locked EXCEPT ![c] = FALSE]
    /\ UNCHANGED <<hostVars, planVars, callNo, hist, args, tries, outerTries,
                   sess, exc, result, log, faultVars>>

\* _locked_slot: slot_session = self._open_ssh_session(); a failure is
\* re-raised as SlotLockError, which leaves the `with` statement
locked_slot_open_slot(c) ==
    /\ pc[c] = "open_slot"
    /\ log' = Logged(c, "connect", <<>>)
    /\ \/ /\ NoFault
          /\ sess' = [sess EXCEPT ![c].slot = "open"]
          /\ Goto(c, "open_lock")
          /\ UNCHANGED exc
       \/ /\ Fault(c)
          /\ Raise(c, "SlotLockError")
          /\ Goto(c, "return")
          /\ UNCHANGED sess
    /\ UNCHANGED <<hostVars, planVars, callNo, hist, args, tries, outerTries,
                   locked, result>>

\* faulty variant: the body of the `with` statement runs before the flock
\* command
after_sessions_opened_yields(op) ==
    IF op = "lock" THEN "lk_is_free" ELSE "ul_is_free"

\* _locked_slot once both sessions are open: the first statement of the
\* second try block is the call of _get_blocking_session_with_locked_slot
after_sessions_opened(op) == "acquire"

\* _locked_slot: lock_session = self._open_ssh_session(); on failure the
\* handler only raises SlotLockError (slot_session is not closed)
locked_slot_open_lock(c) ==
    /\ pc[c] = "open_lock"
    /\ log' = Logged(c, "connect", <<>>)
    /\ \/ /\ NoFault
          /\ sess' = [sess EXCEPT ![c].lock = "open"]
          /\ Goto(c, after_sessions_opened(args[c].op))
          /\ UNCHANGED exc
       \/ /\ Fault(c)
          /\ Raise(c, "SlotLockError")
          /\ Goto(c, "return")
          /\ UNCHANGED sess
    /\ UNCHANGED <<hostVars, planVars, callNo, hist, args, tries, outerTries,
                   locked, result>>

\* faulty variant: flock that never reports a conflict
flock_exit_never_conflicts(holder) == 0

\* exit status of `flock --conflict-exit-code 42 --nonblocking <lock> cat`
\* when it cannot run cat: the lock file is held by another process
flock_exit(holder) == IF holder = NoClient THEN 0 ELSE FLOCK_CONFLICT

\* faulty variant: a fourth attempt is made
retry_again_after_third(failed_attempts) == failed_attempts < MAX_RETRIES + 1

\* backoff.on_exception(..., max_tries=MAX_RETRIES): after a failed attempt,
\* whether the decorated function is called again
retry_again(failed_attempts) == failed_attempts < MAX_RETRIES

\* faulty variant: the body of the `with` statement runs without the lock
acquire_failed_next_enters_body(op) == IF op = "lock" THEN "lk_is_free" ELSE "ul_is_free"

\* _locked_slot when _get_blocking_session_with_locked_slot gave up: the
\* SlotLockError skips `yield`, control is in the finally block
acquire_failed_next(op) == "finally"

\* One attempt of _get_blocking_session_with_locked_slot: exec the flock
\* command on the lock session, write "verify lock" and read it back.
get_blocking_session_with_locked_slot(c) ==
    /\ pc[c] = "acquire"
    /\ log' = Logged(c, "flock", <<>>)
    /\ \/ \* flock succeeds, cat echoes the line: the lock is held
          /\ flock_exit(flockHeld[H(c)][S(c)]) = 0
          /\ NoFault
          /\ flockHeld' = [flockHeld EXCEPT ![H(c)][S(c)] = c]
          /\ sess' = [sess EXCEPT ![c].stdin = "open"]
          /\ Goto(c, IF args[c].op = "lock" THEN "lk_is_free" ELSE "ul_is_free")
          /\ UNCHANGED <<tries, exc>>
       \/ \* SlotLockError: exit 42 (held by others), or an SSH failure of
          \* exec_command, of stdin.write or of readline (cat is gone then)
          /\ \/ flock_exit(flockHeld[H(c)][S(c)]) = FLOCK_CONFLICT /\ NoFault
             \/ Fault(c)
          /\ tries' = [tries EXCEPT ![c] = @ + 1]
          /\ IF retry_again(tries[c] + 1)
             THEN UNCHANGED <<pc, exc>>
             ELSE Raise(c, "SlotLockError")
                  /\ Goto(c, acquire_failed_next(args[c].op))
          /\ UNCHANGED <<flockHeld, sess>>
    /\ UNCHANGED <<slotFile, planVars, callNo, hist, args, outerTries, locked,
                   result>>

(* ----------------------------- HostSlot -------------------------------- *)
\* faulty variant: any prid in the slot counts as the caller's
is_locked_by_any_prid(d, prid) == d.prid.some

\* HostSlot.is_locked_by on the data read
is_locked_by(d, prid) == d.prid = Str(prid)

\* what remains unchanged in a step of the work body that only reads
ReadFrame == <<slotFile, flockHeld, planVars, callNo, hist, args, tries,
               outerTries, sess, result>>

\* HostSlot._read fails (the SSH command raises or exits non-zero):
\* SlotReadError leaves the work body
ReadFails(c) ==
    /\ Fault(c)
    /\ log' = Logged(c, "read", <<>>)
    /\ Raise(c, "SlotReadError")
    /\ Goto(c, "finally")
    /\ UNCHANGED locked

ReadOk(c) ==
    /\ NoFault
    /\ log' = Logged(c, "read", read(H(c), S(c)))
    /\ UNCHANGED exc

\* HostSlot.lock, `not self.is_free` of `if not self.is_free and self.is_valid`
HostSlot_lock_is_free(c) ==
    /\ pc[c] = "lk_is_free"
    /\ \/ /\ ReadOk(c)
          /\ Goto(c, IF is_empty(data(H(c), S(c)))
                     THEN "lk_is_valid2" ELSE "lk_is_valid1")
          /\ UNCHANGED locked
       \/ ReadFails(c)
    /\ UNCHANGED ReadFrame

\* faulty variant: an occupied slot is used whether its data is valid or not
lock_occupied_next_always_use(valid) == "lk_is_valid2"

\* faulty variant: an occupied slot is refused whether its data is valid or not
lock_occupied_next_always_refuse(valid) == "finally"

\* HostSlot.lock: a slot that is not free is refused (`return False`, which
\* leaves the work body) when its data is valid, and used when it is not
lock_occupied_next(valid) == IF valid THEN "finally" ELSE "lk_is_valid2"

\* HostSlot.lock, `self.is_valid` of the same condition
HostSlot_lock_is_valid1(c) ==
    /\ pc[c] = "lk_is_valid1"
    /\ \/ /\ ReadOk(c)
          /\ Goto(c, lock_occupied_next(is_valid(data(H(c), S(c)))))
          /\ UNCHANGED locked
       \/ ReadFails(c)
    /\ UNCHANGED ReadFrame

\* HostSlot.lock, `if not self.is_valid:` (a warning only)
HostSlot_lock_is_valid2(c) ==
    /\ pc[c] = "lk_is_valid2"
    /\ \/ ReadOk(c) /\ Goto(c, "lk_write") /\ UNCHANGED locked
       \/ ReadFails(c)
    /\ UNCHANGED ReadFrame

\* the payload HostSlot.lock writes at time ts
lock_payload(prid, ts) == to_string(SlotData(Str(prid), Str(<<ts>>)))

\* HostSlot._write(data): echo when data is non-empty, truncate otherwise.
\* When the command fails (SlotWriteError) it may or may not have taken effect.
Write(c, d) ==
    /\ log' = Logged(c, IF d # <<>> THEN "echo" ELSE "truncate", d)
    /\ \/ /\ NoFault
          /\ slotFile' = [slotFile EXCEPT ![H(c)][S(c)] = d]
          /\ locked' = [locked EXCEPT ![c] = TRUE]
          /\ UNCHANGED exc
       \/ /\ Fault(c)
          /\ \/ slotFile' = [slotFile EXCEPT ![H(c)][S(c)] = d]
             \/ UNCHANGED slotFile
          /\ Raise(c, "SlotWriteError")
          /\ UNCHANGED locked
    /\ Goto(c, "finally")
    /\ UNCHANGED <<flockHeld, planVars, callNo, hist, args, tries, outerTries,
                   sess, result>>

\* HostSlot.lock: data = SlotData(prid, utcnow().isoformat());
\* self._write(data.to_string()); return True
HostSlot_lock_write(c) ==
    /\ pc[c] = "lk_write"
    /\ \E ts \in Stamps : Write(c, lock_payload(args[c].prid, ts))

\* faulty variant: unlocking a free slot reports failure
unlock_free_returns_false == FALSE

\* HostSlot.unlock on a free slot: `return True`
unlock_free_returns == TRUE

\* HostSlot.unlock, `if self.is_free:`
HostSlot_unlock_is_free(c) ==
    /\ pc[c] = "ul_is_free"
    /\ \/ /\ ReadOk(c)
          /\ IF is_empty(data(H(c), S(c)))
             THEN /\ locked' = [locked EXCEPT ![c] = unlock_free_returns]
                  /\ Goto(c, "finally")
             ELSE UNCHANGED locked /\ Goto(c, "ul_is_valid")
       \/ ReadFails(c)
    /\ UNCHANGED ReadFrame

\* HostSlot.unlock, `if not self.is_valid: self._write(); return True`
HostSlot_unlock_is_valid(c) ==
    /\ pc[c] = "ul_is_valid"
    /\ \/ /\ ReadOk(c)
          /\ Goto(c, IF is_valid(data(H(c), S(c)))
                     THEN "ul_is_locked_by" ELSE "ul_write")
          /\ UNCHANGED locked
       \/ ReadFails(c)
    /\ UNCHANGED ReadFrame

\* HostSlot.unlock, `if not self.is_locked_by(prid): return False`
HostSlot_unlock_is_locked_by(c) ==
    /\ pc[c] = "ul_is_locked_by"
    /\ \/ /\ ReadOk(c)
          /\ IF is_locked_by(data(H(c), S(c)), args[c].prid)
             THEN UNCHANGED locked /\ Goto(c, "ul_write")
             ELSE locked' = [locked EXCEPT ![c] = FALSE] /\ Goto(c, "finally")
       \/ ReadFails(c)
    /\ UNCHANGED ReadFrame

\* HostSlot.unlock: self._write(); return True
HostSlot_unlock_write(c) ==
    /\ pc[c] = "ul_write"
    /\ Write(c, <<>>)

(* -------------------- leaving _locked_slot and lock() ------------------ *)
WorkPcs == {"lk_is_free", "lk_is_valid1", "lk_is_valid2", "lk_write",
            "ul_is_free", "ul_is_valid", "ul_is_locked_by", "ul_write"}

\* _locked_slot: `except Exception as ex: raise SlotLockError(...) from ex`
locked_slot_except(e) == IF e = "none" THEN "none" ELSE "SlotLockError"

\* faulty variant: the finally block leaves the remote cat running
finally_keeps_flock(holder, c) == holder

\* holder of the flock after the finally block of client c: closing
\* lock_stdin ends c's cat, and with it c's flock
finally_releases(holder, c) == IF holder = c THEN NoClient ELSE holder

\* _locked_slot, the finally block: lock_stdin.close() (cat exits, the flock is
\* released), slot_session.close(), lock_session.close()
locked_slot_exit(c) ==
    /\ pc[c] = "finally"
    /\ exc' = [exc EXCEPT ![c] = locked_slot_except(@)]
    /\ flockHeld' = [flockHeld EXCEPT ![H(c)][S(c)] = finally_releases(@, c)]
    /\ sess' = [sess EXCEPT ![c] =
                   [slot |-> "closed", lock |-> "closed",
                    stdin |-> IF @.stdin = "open" THEN "closed" ELSE @.stdin]]
    /\ log' = [log EXCEPT ![c] =
                  @ \o (IF sess[c].stdin = "open"
                        THEN <<Entry(H(c), "close_stdin", <<>>)>> ELSE <<>>)
                    \o <<Entry(H(c), "close", <<>>), Entry(H(c), "close", <<>>)>>]
    /\ Goto(c, "return")
    /\ UNCHANGED <<slotFile, planVars, callNo, hist, args, tries, outerTries,
                   locked, result, faultVars>>

\* the exceptions the backoff decorator of lock()/unlock() retries on
RetryOn == {"SlotLockError", "SlotReadError", "SlotWriteError"}

\* lock()/unlock(): `except SlotLockError` only logs; what still propagates
lock_except(e) == IF e = "SlotLockError" THEN "none" ELSE e

\* lock()/unlock() returns `locked`, or its backoff decorator calls it again
RemoteHost_return(c) ==
    /\ pc[c] = "return"
    /\ LET e == lock_except(exc[c])
       IN  IF e \in RetryOn /\ retry_again(outerTries[c] + 1)
           THEN /\ outerTries' = [outerTries EXCEPT ![c] = @ + 1]
                /\ Goto(c, "check_id")
                /\ UNCHANGED <<result, hist>>
           ELSE /\ result' = [result EXCEPT ![c] =
                                 IF e # "none" THEN "raised"
                                 ELSE IF locked[c] THEN "true" ELSE "false"]
                /\ hist' = [hist EXCEPT ![c] =
                              IF pool[c].ppc = "none"
                              THEN Append(@, result'[c]) ELSE @]
                /\ Goto(c, "idle")
                /\ UNCHANGED outerTries
    /\ exc' = [exc EXCEPT ![c] = "none"]
    /\ UNCHANGED <<hostVars, planVars, callNo, args, tries, sess, locked, log,
                   faultVars>>

\* The lock session of a client is lost while it runs the work body: the
\* remote cat dies and the flock is released; the client is not told.
DropLockSession(c) ==
    /\ pc[c] \in WorkPcs
    /\ flockHeld[H(c)][S(c)] = c
    /\ Fault(c)
    /\ flockHeld' = [flockHeld EXCEPT ![H(c)][S(c)] = NoClient]
    /\ sess' = [sess EXCEPT ![c].lock = "dropped"]
    /\ UNCHANGED <<slotFile, planVars, callNo, hist, args, pc, tries,
                   outerTries, locked, exc, result, log>>

\* faulty variant: the remote cat outlives the SSH session that started it
session_death_keeps_flock(holder, c) == holder

\* holder of the flock after the SSH sessions of client c died: the flock
\* command runs `cat` on the lock session's stdin, so cat reads end-of-file
\* and exits, and flock releases the lock file
session_death_releases(holder, c) == IF holder = c THEN NoClient ELSE holder

\* The client is cancelled or crashes inside lock() or unlock(): its SSH
\* sessions are closed and it takes no further step.  A command it had
\* issued has either run or not.
Crash(c) ==
    /\ pc[c] \notin {"idle", "crashed"}
    /\ pool[c].ppc = "none"
    /\ Goto(c, "crashed")
    /\ flockHeld' = [flockHeld EXCEPT ![H(c)][S(c)] = session_death_releases(@, c)]
    /\ sess' = [sess EXCEPT ![c] =
                   [f \in DOMAIN @ |-> IF @[f] = "none" THEN "none" ELSE "closed"]]
    /\ UNCHANGED <<slotFile, planVars, callNo, hist, args, tries, outerTries,
                   locked, exc, result, log, faultVars>>

(* --------------------- RemoteHostsPool.from_config --------------------- *)
\* A config is [slots_dir, has_pools, pools]: slots_dir is "absent" (the key
\* is missing), "empty" (the empty string) or "dir"; pools maps platform
\* names to maps from host to attributes.  The attributes of a host are
\* [has_enabled, enabled, has_keys]; has_keys says that username, auth and
\* socket_path are all there.
Platforms == {"x86_64", "aarch64"}

\* `not slots_dir` after config.get("slots_dir")
not_slots_dir(config) == config.slots_dir \in {"absent", "empty"}

\* config.get("pools", {}).get(platform, {})
platform_config(config, platform) ==
    IF config.has_pools /\ platform \in DOMAIN config.pools
    THEN config.pools[platform]
    ELSE << >>

\* faulty variant: a platform without hosts gives a pool without hosts
not_platform_config_never(pcfg) == FALSE

\* `not platform_config`
not_platform_config(pcfg) == DOMAIN pcfg = {}

\* faulty variant: a host without the enabled key counts as enabled
attr_get_enabled_default_true(attr) ==
    IF attr.has_enabled THEN attr.enabled ELSE TRUE

\* attr.get("enabled", False)
attr_get_enabled(attr) == IF attr.has_enabled THEN attr.enabled ELSE FALSE

\* from_config(config, platform): the exception it raises, or the hosts of
\* the pool it returns
from_config_result(config, platform) ==
    LET pcfg == platform_config(config, platform)
        on == {h \in DOMAIN pcfg : attr_get_enabled(pcfg[h])}
    IN  IF not_slots_dir(config) THEN [ret |-> "RuntimeError", hosts |-> {}]
        ELSE IF not_platform_config(pcfg)
        THEN [ret |-> "RuntimeError", hosts |-> {}]
        ELSE IF \E h \in on : ~pcfg[h].has_keys
        THEN [ret |-> "KeyError", hosts |-> {}]
        ELSE [ret |-> "pool", hosts |-> on]

\* a from_config call of c raised, so c has no pool to call lock_resource on
ConfigFailed(c) ==
    \E n \in 1..Len(hist[c]) : hist[c][n] \in {"RuntimeError", "KeyError"}

\* pool = RemoteHostsPool.from_config(config, platform)
from_config(c) ==
    /\ pc[c] = "idle"
    /\ pool[c].ppc = "none"
    /\ callNo[c] < Len(plan[c])
    /\ plan[c][callNo[c] + 1].op = "from_config"
    /\ callNo' = [callNo EXCEPT ![c] = @ + 1]
    /\ LET k == plan[c][callNo[c] + 1]
           r == from_config_result(k.config, k.platform)
       IN  /\ hist' = [hist EXCEPT ![c] = Append(@, r.ret)]
           /\ poolHosts' = IF r.ret = "pool" THEN r.hosts ELSE poolHosts
    /\ log' = [log EXCEPT ![c] = <<>>]
    /\ UNCHANGED <<slotFile, flockHeld, slot0, plan, callVars, pre, faultVars,
                   pool>>

(* --------------------- RemoteHostsPool.lock_resource ------------------- *)
\* random.shuffle: every order of the elements
Perms(X) ==
    {f \in [1..Cardinality(X) -> X] :
        \A i, j \in 1..Cardinality(X) : f[i] = f[j] => i = j}
Shuffles(s) == {[i \in 1..Len(s) |-> s[f[i]]] : f \in Perms(1..Len(s))}

\* prid passed to lock_resource
PoolPrid(c) == plan[c][callNo[c]].prid
\* host of the current iteration of `for host in self.hosts`
PoolHost(c) == pool[c].hosts[pool[c].i]

PoolFrame == <<slotFile, flockHeld, slot0, plan, poolHosts, callNo, hist,
               callVars, pre>>
PoolLogged(c, cmds) ==
    log' = [log EXCEPT ![c] =
               @ \o [i \in 1..Len(cmds) |-> Entry(PoolHost(c), cmds[i], <<>>)]]

\* lock_resource(prid): resources = []; random.shuffle(self.hosts)
lock_resource_start(c) ==
    /\ pc[c] = "idle"
    /\ pool[c].ppc = "none"
    /\ callNo[c] < Len(plan[c])
    /\ plan[c][callNo[c] + 1].op = "lock_resource"
    /\ ~ConfigFailed(c)
    /\ callNo' = [callNo EXCEPT ![c] = @ + 1]
    /\ \E hs \in Perms(poolHosts) :
          pool' = [pool EXCEPT ![c] =
                      [NoPool EXCEPT !.hosts = hs, !.i = 1,
                                     !.caller = "lock_resource",
                                     !.ppc = IF hs = <<>> THEN "select"
                                             ELSE "is_operational"]]
    /\ log' = [log EXCEPT ![c] = <<>>]
    /\ faulted' = [faulted EXCEPT ![c] = FALSE]
    /\ UNCHANGED <<slotFile, flockHeld, slot0, plan, poolHosts, hist, callVars,
                   pre, faults>>

\* faulty variant: the scan stops at the first host it cannot use
scan_break(i, n) == n + 1

\* faulty variant: the scan stays on the host it has just scanned
scan_again(i, n) == i

\* `continue` in `for host in self.hosts`: index of the next host to scan
scan_continue(i, n) == i + 1

\* the scan goes on with the next host, or ends
next_host(p) ==
    LET j == scan_continue(p.i, Len(p.hosts))
    IN  [p EXCEPT !.i = j, !.slot_id = 0, !.available_slots = <<>>,
                  !.ppc = IF j > Len(p.hosts) THEN "select" ELSE "is_operational"]

\* the host of this iteration is left out: not operational, or its scan raised
skip_host(p) == next_host([p EXCEPT !.skipped = @ \cup {p.hosts[p.i]}])

\* faulty variant: an exception of the scan leaves lock_resource
scan_except_propagates(e) == e

\* lock_resource, `except Exception as ex:` around is_operational and
\* available_slots: a warning, then `continue`; what still propagates
scan_except(e) == "none"

\* an exception e leaves host.available_slots() or host.is_free(): caught in
\* lock_resource, raised to any other caller
scan_raised(p, e) ==
    IF p.caller # "lock_resource"
    THEN [p EXCEPT !.ret = "raised", !.ppc = "query_return"]
    ELSE IF scan_except(e) = "none"
    THEN skip_host(p)
    ELSE [p EXCEPT !.ret = "raised", !.ppc = "return"]

\* RemoteHost.is_operational: `mkdir -p <slots_dir>` in a session of its own;
\* an exception or a non-zero exit gives False, and lock_resource goes on with
\* available_slots = []
RemoteHost_is_operational(c) ==
    /\ pool[c].ppc = "is_operational"
    /\ \/ /\ NoFault
          /\ PoolLogged(c, <<"connect", "mkdir", "close">>)
          /\ pool' = [pool EXCEPT ![c].ppc = "scan_open"]
       \/ /\ Fault(c)
          /\ PoolLogged(c, <<"connect">>)
          /\ pool' = [pool EXCEPT ![c] =
                         skip_host([@ EXCEPT !.down = @ \cup {PoolHost(c)}])]
    /\ UNCHANGED PoolFrame

\* RemoteHost.available_slots: `with self._ssh_session() as ssh_session`
RemoteHost_available_slots_open(c) ==
    /\ pool[c].ppc = "scan_open"
    /\ PoolLogged(c, <<"connect">>)
    /\ \/ /\ NoFault
          /\ pool' = [pool EXCEPT ![c].ppc = "scan_is_free", ![c].slot_id = 0,
                                  ![c].available_slots = <<>>]
       \/ /\ Fault(c)
          /\ pool' = [pool EXCEPT ![c] = scan_raised(@, "SSHException")]
    /\ UNCHANGED PoolFrame

\* commands of a failed read: inside available_slots the `with` statement
\* closes the session on the way out; is_free called on its own was given one
ReadFailedCmds(caller) ==
    IF caller = "is_free" THEN <<"read">> ELSE <<"read", "close">>

\* `for slot_id in range(self.slots)` goes on after slot p.slot_id, which is
\* appended to available_slots when free is true
next_slot(p, free) ==
    IF p.caller = "is_free"
    THEN \* is_free called on its own returns `free`
         [p EXCEPT !.ret = IF free THEN "true" ELSE "false", !.ppc = "query_return"]
    ELSE [p EXCEPT !.available_slots = IF free THEN Append(@, p.slot_id) ELSE @,
                   !.slot_id = @ + 1,
                   !.ppc = IF p.slot_id + 1 \in SlotIds(p.hosts[p.i])
                           THEN "scan_is_free" ELSE "scan_done"]

\* RemoteHost.is_free, `slot.is_free` of `slot.is_free or not slot.is_valid`
RemoteHost_is_free(c) ==
    /\ pool[c].ppc = "scan_is_free"
    /\ \/ /\ NoFault
          /\ PoolLogged(c, <<"read">>)
          /\ pool' = [pool EXCEPT ![c] =
                         IF is_empty(data(PoolHost(c), @.slot_id))
                         THEN next_slot(@, TRUE)
                         ELSE [@ EXCEPT !.ppc = "scan_is_valid"]]
       \/ /\ Fault(c)
          /\ PoolLogged(c, ReadFailedCmds(pool[c].caller))
          /\ pool' = [pool EXCEPT ![c] = scan_raised(@, "SlotReadError")]
    /\ UNCHANGED PoolFrame

\* faulty variant: a slot that is not empty never counts as free
occupied_is_free_never(valid) == FALSE

\* faulty variant: an occupied slot counts as free when its data is valid
occupied_is_free_if_valid(valid) == valid

\* RemoteHost.is_free for a slot that is not empty: `not slot.is_valid`
occupied_is_free(valid) == ~valid

\* RemoteHost.is_free, `not slot.is_valid`
RemoteHost_is_free_is_valid(c) ==
    /\ pool[c].ppc = "scan_is_valid"
    /\ \/ /\ NoFault
          /\ PoolLogged(c, <<"read">>)
          /\ pool' = [pool EXCEPT ![c] =
                next_slot(@, occupied_is_free(
                                 is_valid(data(PoolHost(c), @.slot_id))))]
       \/ /\ Fault(c)
          /\ PoolLogged(c, ReadFailedCmds(pool[c].caller))
          /\ pool' = [pool EXCEPT ![c] = scan_raised(@, "SlotReadError")]
    /\ UNCHANGED PoolFrame

\* available_slots returned: `if not available_slots: continue`, else
\* random.shuffle(available_slots); resources.append((host, available_slots))
lock_resource_scanned(c) ==
    /\ pool[c].ppc = "scan_done"
    /\ pool[c].caller = "lock_resource"
    /\ PoolLogged(c, <<"close">>)
    /\ IF pool[c].available_slots = <<>>
       THEN pool' = [pool EXCEPT ![c] = next_host(@)]
       ELSE \E sl \in Shuffles(pool[c].available_slots) :
               pool' = [pool EXCEPT ![c] =
                   next_host([@ EXCEPT !.resources =
                       Append(@, [host |-> PoolHost(c), slots |-> sl])])]
    /\ UNCHANGED <<PoolFrame, faultVars>>

\* faulty variant: the sort puts the smaller ratio first
ratio_le(a, b) == Len(a.slots) * slots(b.host) <= Len(b.slots) * slots(a.host)

\* A client calls is_free(slot_id, ssh_session) with a session it holds,
\* available_slots() or occupied_slots() on a host.
StartQuery(c) ==
    /\ pc[c] = "idle"
    /\ pool[c].ppc = "none"
    /\ callNo[c] < Len(plan[c])
    /\ LET k == plan[c][callNo[c] + 1]
       IN  /\ k.op \in {"is_free", "available_slots", "occupied_slots"}
           /\ pool' = [pool EXCEPT ![c] =
                 [NoPool EXCEPT !.caller = k.op, !.hosts = <<k.host>>, !.i = 1,
                                !.slot_id = IF k.op = "is_free" THEN k.slot ELSE 0,
                                !.ppc = IF k.op = "is_free" THEN "is_free_check_id"
                                        ELSE "scan_open"]]
    /\ callNo' = [callNo EXCEPT ![c] = @ + 1]
    /\ log' = [log EXCEPT ![c] = <<>>]
    /\ faulted' = [faulted EXCEPT ![c] = FALSE]
    /\ UNCHANGED <<slotFile, flockHeld, slot0, plan, poolHosts, hist, callVars,
                   pre, faults>>

\* RemoteHost.is_free: `if not self._is_valid_slot_id(slot_id): return False`
RemoteHost_is_free_check_id(c) ==
    /\ pool[c].ppc = "is_free_check_id"
    /\ pool' = [pool EXCEPT ![c] =
                   IF is_valid_slot_id(PoolHost(c), @.slot_id)
                   THEN [@ EXCEPT !.ppc = "scan_is_free"]
                   ELSE [@ EXCEPT !.ret = "false", !.ppc = "query_return"]]
    /\ UNCHANGED <<PoolFrame, log, faultVars>>

\* the set a sequence of slot ids lists
Range(s) == {s[i] : i \in 1..Len(s)}

\* available_slots() leaves its `with` statement and returns the list;
\* occupied_slots() returns set(range(self.slots)) - set(available_slots())
RemoteHost_available_slots_return(c) ==
    /\ pool[c].ppc = "scan_done"
    /\ pool[c].caller \in {"available_slots", "occupied_slots"}
    /\ PoolLogged(c, <<"close">>)
    /\ pool' = [pool EXCEPT ![c] =
                   [@ EXCEPT !.ret = "slots", !.ppc = "query_return",
                             !.value = IF pool[c].caller = "available_slots"
                                       THEN Range(pool[c].available_slots)
                                       ELSE SlotIds(PoolHost(c))
                                                \ Range(pool[c].available_slots)]]
    /\ UNCHANGED <<PoolFrame, faultVars>>

\* is_free, available_slots or occupied_slots returns, or raises, to its caller
query_return(c) ==
    /\ pool[c].ppc = "query_return"
    /\ pool' = [pool EXCEPT ![c].ppc = "none"]
    /\ hist' = [hist EXCEPT ![c] = Append(@, pool[c].ret)]
    /\ UNCHANGED <<slotFile, flockHeld, slot0, plan, poolHosts, callNo,
                   callVars, pre, log, faultVars>>

\* the steps of available_slots() and is_free()
ScanStep(c) ==
    \/ RemoteHost_available_slots_open(c)
    \/ RemoteHost_is_free(c)
    \/ RemoteHost_is_free_is_valid(c)

QueryStep(c) ==
    \/ StartQuery(c)
    \/ RemoteHost_is_free_check_id(c)
    \/ ScanStep(c)
    \/ RemoteHost_available_slots_return(c)
    \/ query_return(c)

\* faulty variant: `return self.host.unlock(...)`
LockedResource_unlock_passes_result(res) == res

\* LockedResource.unlock: what it gives back when host.unlock returned res.
\* The method has no return statement and no handler: an exception of
\* host.unlock would pass through.
LockedResource_unlock_value(res) == IF res = "raised" THEN "raised" ELSE "none"

\* LockedResource(host, platform, slot, prid).unlock():
\* self.host.unlock(self.slot, self.prid) is entered
LockedResource_unlock(c) ==
    /\ pc[c] = "idle"
    /\ pool[c].ppc = "none"
    /\ callNo[c] < Len(plan[c])
    /\ LET k == plan[c][callNo[c] + 1]
       IN  /\ k.op = "LockedResource.unlock"
           /\ pool' = [pool EXCEPT ![c] =
                 [NoPool EXCEPT !.caller = k.op, !.ppc = "unlocking",
                                !.lease = [host |-> k.host, slot |-> k.slot]]]
           /\ args' = [args EXCEPT ![c] = Call("unlock", k.host, k.slot, k.prid)]
           /\ pre' = [pre EXCEPT ![c] = slotFile[k.host][k.slot]]
    /\ callNo' = [callNo EXCEPT ![c] = @ + 1]
    /\ Goto(c, "check_id")
    /\ tries' = [tries EXCEPT ![c] = 0]
    /\ outerTries' = [outerTries EXCEPT ![c] = 0]
    /\ sess' = [sess EXCEPT ![c] = NoSessions]
    /\ locked' = [locked EXCEPT ![c] = FALSE]
    /\ exc' = [exc EXCEPT ![c] = "none"]
    /\ result' = [result EXCEPT ![c] = "none"]
    /\ log' = [log EXCEPT ![c] = <<>>]
    /\ faulted' = [faulted EXCEPT ![c] = FALSE]
    /\ UNCHANGED <<slotFile, flockHeld, slot0, plan, poolHosts, hist, faults>>

\* host.unlock returned: LockedResource.unlock ends
LockedResource_unlock_return(c) ==
    /\ pool[c].ppc = "unlocking"
    /\ pc[c] = "idle"
    /\ pool' = [pool EXCEPT ![c].ppc = "none",
                            ![c].ret = LockedResource_unlock_value(result[c])]
    /\ hist' = [hist EXCEPT ![c] = Append(@, LockedResource_unlock_value(result[c]))]
    /\ UNCHANGED <<slotFile, flockHeld, slot0, plan, poolHosts, callNo,
                   callVars, pre, log, faultVars>>

LeaseStep(c) == LockedResource_unlock(c) \/ LockedResource_unlock_return(c)

\* key of the sort, len(available_slots) / host.slots, compared exactly:
\* the key of a is at least the key of b
ratio_ge(a, b) == Len(a.slots) * slots(b.host) >= Len(b.slots) * slots(a.host)

RECURSIVE insert_desc(_, _)
insert_desc(x, s) ==
    IF s = <<>> THEN <<x>>
    ELSE IF ratio_ge(Head(s), x) THEN <<Head(s)>> \o insert_desc(x, Tail(s))
    ELSE <<x>> \o s

\* resources.sort(key=..., reverse=True): stable, larger ratio first
RECURSIVE sort_resources(_)
sort_resources(res) ==
    IF res = <<>> THEN <<>>
    ELSE insert_desc(res[Len(res)], sort_resources(SubSeq(res, 1, Len(res) - 1)))

\* `if not resources: return None`, else the sort
lock_resource_select(c) ==
    /\ pool[c].ppc = "select"
    /\ pool' = [pool EXCEPT ![c] =
                   IF @.resources = <<>>
                   THEN [@ EXCEPT !.ret = "null", !.ppc = "return"]
                   ELSE [@ EXCEPT !.resources = sort_resources(@),
                                  !.r = 1, !.k = 1, !.ppc = "try"]]
    /\ UNCHANGED <<PoolFrame, log, faultVars>>

\* the (host, slot) of the current iteration of the two loops
TryHost(c) == pool[c].resources[pool[c].r].host
TrySlot(c) == pool[c].resources[pool[c].r].slots[pool[c].k]

\* `locked = False; locked = host.lock(slot, prid)`: RemoteHost.lock is entered
lock_resource_try(c) ==
    /\ pool[c].ppc = "try"
    /\ pc[c] = "idle"
    /\ pool' = [pool EXCEPT ![c].ppc = "locking",
                            ![c].attempts = Append(@, [host |-> TryHost(c),
                                                       slot |-> TrySlot(c),
                                                       pre |-> slotFile[TryHost(c)][TrySlot(c)],
                                                       locked |-> "none"])]
    /\ args' = [args EXCEPT ![c] = Call("lock", TryHost(c), TrySlot(c), PoolPrid(c))]
    /\ Goto(c, "check_id")
    /\ tries' = [tries EXCEPT ![c] = 0]
    /\ outerTries' = [outerTries EXCEPT ![c] = 0]
    /\ sess' = [sess EXCEPT ![c] = NoSessions]
    /\ locked' = [locked EXCEPT ![c] = FALSE]
    /\ exc' = [exc EXCEPT ![c] = "none"]
    /\ result' = [result EXCEPT ![c] = "none"]
    /\ pre' = [pre EXCEPT ![c] = slotFile[TryHost(c)][TrySlot(c)]]
    /\ UNCHANGED <<slotFile, flockHeld, slot0, plan, poolHosts, callNo, hist,
                   log, faultVars>>

\* lock_resource, `except Exception as ex:` around host.lock: a warning only;
\* whether an exception of host.lock still propagates
pool_lock_except(res) == FALSE

\* faulty variant: a successful host.lock is not noticed
if_locked_never(res) == FALSE

\* lock_resource, `if locked:` on what host.lock returned
if_locked(res) == res = "true"

\* host.lock returned or raised: `if locked: return LockedResource(...)`, else
\* the next slot, the next host, or `return None`
lock_resource_after_lock(c) ==
    /\ pool[c].ppc = "locking"
    /\ pc[c] = "idle"
    /\ LET p == [pool[c] EXCEPT !.attempts[Len(pool[c].attempts)].locked = result[c]]
       IN  pool' = [pool EXCEPT ![c] =
          IF pool_lock_except(result[c])
          THEN [p EXCEPT !.ret = "raised", !.ppc = "return"]
          ELSE IF if_locked(result[c])
          THEN [p EXCEPT !.ret = "lease", !.ppc = "return",
                         !.lease = [host |-> TryHost(c), slot |-> TrySlot(c)]]
          ELSE IF p.k < Len(p.resources[p.r].slots)
          THEN [p EXCEPT !.k = @ + 1, !.ppc = "try"]
          ELSE IF p.r < Len(p.resources)
          THEN [p EXCEPT !.r = @ + 1, !.k = 1, !.ppc = "try"]
          ELSE [p EXCEPT !.ret = "null", !.ppc = "return"]]
    /\ UNCHANGED <<PoolFrame, log, faultVars>>

\* lock_resource returns (a LockedResource or None) or raises
lock_resource_return(c) ==
    /\ pool[c].ppc = "return"
    /\ pool' = [pool EXCEPT ![c].ppc = "none"]
    /\ hist' = [hist EXCEPT ![c] = Append(@, pool[c].ret)]
    /\ UNCHANGED <<slotFile, flockHeld, slot0, plan, poolHosts, callNo,
                   callVars, pre, log, faultVars>>

PoolStep(c) ==
    \/ lock_resource_start(c)
    \/ RemoteHost_is_operational(c)
    \/ RemoteHost_available_slots_open(c)
    \/ RemoteHost_is_free(c)
    \/ RemoteHost_is_free_is_valid(c)
    \/ lock_resource_scanned(c)
    \/ lock_resource_select(c)
    \/ lock_resource_try(c)
    \/ lock_resource_after_lock(c)
    \/ lock_resource_return(c)

(* ------------------------------ behaviours ----------------------------- *)
\* contents a slot file may have at the start: free, valid-occupied,
\* no separator, empty prid, whitespace only
InitPayloads == { <<>>, <<"a", "@", "t1">>, <<"b", "@", "t1">>, <<"a">>,
                  <<"@", "t1">>, <<" ">> }

RacePrids == { <<"a">>, <<"b">> }

\* ids n for which the model keeps the files slot_<n> and slot_<n>.lock of a
\* host: the valid ids and the ids next to them (a file that does not exist
\* reads as empty, `touch` creates it)
FileIds == (-1)..NSlots
ConfiguredSlots == {<<h, s>> : h \in Hosts, s \in 0..(NSlots - 1)} \cap
                   {hs \in Hosts \X FileIds : hs[2] \in SlotIds(hs[1])}
\* the slot files of all hosts, f giving the content of every configured slot
Files(f) ==
    [h \in Hosts |-> [s \in FileIds |->
        IF s \in SlotIds(h) THEN f[<<h, s>>] ELSE <<>>]]

FilesWith(p) ==
    [h \in Hosts |-> [s \in FileIds |-> IF h = 1 /\ s = 0 THEN p ELSE <<>>]]

InitCommon ==
    /\ flockHeld = [h \in Hosts |-> [s \in FileIds |-> NoClient]]
    /\ slot0 = slotFile
    /\ callNo = [c \in Clients |-> 0]
    /\ hist = [c \in Clients |-> <<>>]
    /\ args = [c \in Clients |-> NoArgs]
    /\ pc = [c \in Clients |-> "idle"]
    /\ tries = [c \in Clients |-> 0]
    /\ outerTries = [c \in Clients |-> 0]
    /\ sess = [c \in Clients |-> NoSessions]
    /\ locked = [c \in Clients |-> FALSE]
    /\ exc = [c \in Clients |-> "none"]
    /\ result = [c \in Clients |-> "none"]
    /\ log = [c \in Clients |-> <<>>]
    /\ pre = [c \in Clients |-> <<>>]
    /\ faults = 0
    /\ faulted = [c \in Clients |-> FALSE]
    /\ pool = [c \in Clients |-> NoPool]

\* Two clients, one call each, on slot 0 of host 1.
Init ==
    /\ \E p \in InitPayloads : slotFile = FilesWith(p)
    /\ plan \in [Clients -> {<<Call(op, 1, 0, prid)>> :
                                op \in {"lock", "unlock"}, prid \in RacePrids}]
    /\ poolHosts = Hosts
    /\ InitCommon

\* the steps RemoteHost.lock and RemoteHost.unlock share
LockedSlotStep(c) ==
    \/ RemoteHost_check_id(c)
    \/ locked_slot_open_slot(c)
    \/ locked_slot_open_lock(c)
    \/ get_blocking_session_with_locked_slot(c)
    \/ locked_slot_exit(c)
    \/ RemoteHost_return(c)
    \/ DropLockSession(c)

LockBodyStep(c) ==
    \/ HostSlot_lock_is_free(c)
    \/ HostSlot_lock_is_valid1(c)
    \/ HostSlot_lock_is_valid2(c)
    \/ HostSlot_lock_write(c)

UnlockBodyStep(c) ==
    \/ HostSlot_unlock_is_free(c)
    \/ HostSlot_unlock_is_valid(c)
    \/ HostSlot_unlock_is_locked_by(c)
    \/ HostSlot_unlock_write(c)

HostCallStep(c) ==
    \/ StartCall(c)
    \/ LockedSlotStep(c)
    \/ LockBodyStep(c)
    \/ UnlockBodyStep(c)

Next == \E c \in Clients : HostCallStep(c)

Spec == Init /\ [][Next]_vars

\* The same two clients, each of which may crash at any step of its call.
NextCrash == \E c \in Clients : HostCallStep(c) \/ Crash(c)

SpecCrash == Init /\ [][NextCrash]_vars

\* One client makes one call, or two calls one after the other, on slot 0 of
\* host 1; the prids are any string p up to MaxPridLen and the fixed "b".
StringsUpTo(A, n) == UNION {[1..k -> A] : k \in 0..n}
PridChars == {"a", "@", " "}
SeqPrids == StringsUpTo(PridChars, MaxPridLen)
Ops == {"lock", "unlock"}

SeqPlans ==
    UNION { {<<Call(o1, 1, 0, p1)>> : o1 \in Ops, p1 \in {p, <<"b">>}}
            \cup {<<Call(o1, 1, 0, p1), Call(o2, 1, 0, p2)>> :
                      o1 \in Ops, o2 \in Ops,
                      p1 \in {p, <<"b">>}, p2 \in {p, <<"b">>}}
          : p \in SeqPrids }

InitSeq ==
    /\ \E p \in InitPayloads : slotFile = FilesWith(p)
    /\ \E q \in SeqPlans : plan = [c \in Clients |-> IF c = "c1" THEN q ELSE <<>>]
    /\ poolHosts = Hosts
    /\ InitCommon

SpecSeq == InitSeq /\ [][Next]_vars

\* One client calls lock_resource on a pool of some of the hosts, whose slots
\* are free, occupied by another prid, or corrupted.
PoolPayloads == { <<>>, <<"b", "@", "t1">>, <<"a">> }

InitPool ==
    /\ \E f \in [ConfiguredSlots -> PoolPayloads] : slotFile = Files(f)
    /\ poolHosts \in SUBSET Hosts
    /\ plan = [c \in Clients |->
                 IF c = "c1" THEN <<Call("lock_resource", 1, 0, <<"a">>)>> ELSE <<>>]
    /\ InitCommon

NextPool == \E c \in Clients : PoolStep(c) \/ LockedSlotStep(c) \/ LockBodyStep(c)

SpecPool == InitPool /\ [][NextPool]_vars

\* One client makes one call on one host: lock, unlock or is_free with a slot
\* id that may lie outside range(slots), available_slots, occupied_slots, or
\* unlock of a LockedResource made for that host and slot.
QueryOps == {"lock", "unlock", "is_free", "available_slots", "occupied_slots",
             "LockedResource.unlock"}

InitQuery ==
    /\ \E f \in [ConfiguredSlots -> PoolPayloads] : slotFile = Files(f)
    /\ poolHosts = Hosts
    /\ \E op \in QueryOps, h \in Hosts, s \in (-1)..NSlots :
          /\ op \in {"available_slots", "occupied_slots"} => s = 0
          /\ plan = [c \in Clients |->
                       IF c = "c1" THEN <<Call(op, h, s, <<"a">>)>> ELSE <<>>]
    /\ InitCommon

\* One client builds a pool from a config for host 1 and host 2 and, when it
\* got one, calls lock_resource on it.  No pool exists before from_config.
HostAttrs == [has_enabled : BOOLEAN, enabled : BOOLEAN, has_keys : BOOLEAN]
HostMaps == UNION {[hs -> HostAttrs] : hs \in SUBSET Hosts}
Configs ==
    {[slots_dir |-> sd, has_pools |-> hp, pools |-> ps] :
        sd \in {"absent", "empty", "dir"}, hp \in BOOLEAN,
        ps \in {<< >>} \cup {[pf \in {"x86_64"} |-> m] : m \in HostMaps}}
ConfigCall(config, platform) ==
    [op |-> "from_config", host |-> 1, slot |-> 0, prid |-> <<>>,
     config |-> config, platform |-> platform]

InitConfig ==
    /\ \E p \in PoolPayloads :
          slotFile = [h \in Hosts |-> [s \in FileIds |->
                         IF h = 1 /\ s = 0 THEN p ELSE <<>>]]
    /\ poolHosts = {}
    /\ \E config \in Configs, platform \in Platforms :
          plan = [c \in Clients |->
                    IF c = "c1"
                    THEN <<ConfigCall(config, platform),
                           Call("lock_resource", 1, 0, <<"a">>)>>
                    ELSE <<>>]
    /\ InitCommon

NextConfig ==
    \E c \in Clients :
        from_config(c) \/ PoolStep(c) \/ LockedSlotStep(c) \/ LockBodyStep(c)

SpecConfig == InitConfig /\ [][NextConfig]_vars

(* --------------------------- SSHRetrySession --------------------------- *)
\* The exception classes an attempt of connect or exec_command can end with,
\* each with the classes it is an instance of (paramiko.ssh_exception:
\* AuthenticationException and BadHostKeyException derive from SSHException;
\* socket.timeout is an OSError, which is not listed for retry).
InstanceOf ==
    [NoValidConnectionsError |-> {"NoValidConnectionsError"},
     SSHException |-> {"SSHException"},
     AuthenticationException |-> {"AuthenticationException", "SSHException"},
     BadHostKeyException |-> {"BadHostKeyException", "SSHException"},
     timeout |-> {"timeout"}]
SshErrors == DOMAIN InstanceOf
RETRY_ON_SSH_EXCEPTIONS == {"NoValidConnectionsError", "SSHException"}

\* backoff.on_exception catches the exception: it is an instance of one of
\* RETRY_ON_SSH_EXCEPTIONS
backoff_catches(e) == InstanceOf[e] \cap RETRY_ON_SSH_EXCEPTIONS # {}

\* faulty variant: one attempt more before giving up
backoff_gives_up_after_four(n) == n >= MAX_RETRIES + 1

\* backoff, max_tries=MAX_RETRIES: after the n-th failed attempt the
\* exception is raised to the caller
backoff_gives_up(n) == n >= MAX_RETRIES

\* how one attempt can end: connect returns or raises; exec_command returns
\* the channel files or raises; for run, the command's exit status is read
\* from the channel after exec_command returned
SshOps == {"connect", "exec_command", "run"}
AttemptOutcomes(op) ==
    IF op = "connect" THEN {"ok"} \cup SshErrors
    ELSE IF op = "exec_command"
    THEN {"ok"} \cup (SshErrors \ {"NoValidConnectionsError"})
    ELSE {"exit 0", "exit 1"} \cup (SshErrors \ {"NoValidConnectionsError"})

\* session.connect(...), session.exec_command(cmd) or session.run(cmd)
SSHRetrySession_call(c) ==
    /\ pc[c] = "idle"
    /\ pool[c].ppc = "none"
    /\ callNo[c] < Len(plan[c])
    /\ plan[c][callNo[c] + 1].op \in SshOps
    /\ callNo' = [callNo EXCEPT ![c] = @ + 1]
    /\ args' = [args EXCEPT ![c] = plan[c][callNo[c] + 1]]
    /\ Goto(c, "ssh_attempt")
    /\ tries' = [tries EXCEPT ![c] = 0]
    /\ log' = [log EXCEPT ![c] = <<>>]
    /\ UNCHANGED <<hostVars, slot0, plan, hist, outerTries, sess, locked, exc,
                   result, pre, faultVars, poolHosts, pool>>

\* one attempt of the decorated method, and what the backoff decorator does
\* with its outcome: return, call again, or let the exception out
SSHRetrySession_attempt(c) ==
    /\ pc[c] = "ssh_attempt"
    /\ \E o \in AttemptOutcomes(args[c].op) :
          /\ tries' = [tries EXCEPT ![c] = @ + 1]
          /\ log' = [log EXCEPT ![c] = Append(@, Entry(H(c), args[c].op, o))]
          /\ IF o \in SshErrors /\ backoff_catches(o)
                /\ ~backoff_gives_up(tries[c] + 1)
             THEN UNCHANGED <<pc, hist>>
             ELSE /\ Goto(c, "idle")
                  /\ hist' = [hist EXCEPT ![c] = Append(@, o)]
    /\ UNCHANGED <<hostVars, slot0, plan, callNo, args, outerTries, sess,
                   locked, exc, result, pre, faultVars, poolHosts, pool>>

\* One client makes one or two calls on an SSHRetrySession.
InitSsh ==
    /\ slotFile = FilesWith(<<>>)
    /\ poolHosts = Hosts
    /\ \E op1 \in SshOps, op2 \in SshOps \cup {"none"} :
          plan = [c \in Clients |->
                    IF c # "c1" THEN <<>>
                    ELSE IF op2 = "none" THEN <<Call(op1, 1, 0, <<>>)>>
                    ELSE <<Call(op1, 1, 0, <<>>), Call(op2, 1, 0, <<>>)>>]
    /\ InitCommon

NextSsh == \E c \in Clients : SSHRetrySession_call(c) \/ SSHRetrySession_attempt(c)

SpecSsh == InitSsh /\ [][NextSsh]_vars

(* ------------------- SlotData.to_string / from_string ------------------ *)
\* x.to_string()
SlotData_to_string(c) ==
    /\ pc[c] = "idle"
    /\ pool[c].ppc = "none"
    /\ callNo[c] < Len(plan[c])
    /\ plan[c][callNo[c] + 1].op = "to_string"
    /\ callNo' = [callNo EXCEPT ![c] = @ + 1]
    /\ hist' = [hist EXCEPT ![c] = Append(@, to_string(plan[c][callNo[c] + 1].data))]
    /\ UNCHANGED <<slotFile, flockHeld, slot0, plan, poolHosts, callVars, pre,
                   log, faultVars, pool>>

\* SlotData.from_string(string); a piped call takes the string that the
\* call before it returned
SlotData_from_string(c) ==
    /\ pc[c] = "idle"
    /\ pool[c].ppc = "none"
    /\ callNo[c] < Len(plan[c])
    /\ plan[c][callNo[c] + 1].op = "from_string"
    /\ callNo' = [callNo EXCEPT ![c] = @ + 1]
    /\ LET k == plan[c][callNo[c] + 1]
           string == IF k.piped THEN Str(hist[c][Len(hist[c])]) ELSE k.string
       IN  hist' = [hist EXCEPT ![c] = Append(@, from_string(string))]
    /\ UNCHANGED <<slotFile, flockHeld, slot0, plan, poolHosts, callVars, pre,
                   log, faultVars, pool>>

\* what reading x.is_valid gives: datetime.fromisoformat(None) raises
\* TypeError, which `except ValueError` does not catch
is_valid_result(d) ==
    IF /\ ~is_empty(d)
       /\ d.prid.some
       /\ \A i \in 1..Len(d.prid.val) : d.prid.val[i] # "@"
       /\ ~d.timestamp.some
    THEN "TypeError"
    ELSE IF is_valid(d) THEN "True" ELSE "False"

\* x.is_valid; a piped call takes the SlotData that the call before it
\* returned
SlotData_is_valid(c) ==
    /\ pc[c] = "idle"
    /\ pool[c].ppc = "none"
    /\ callNo[c] < Len(plan[c])
    /\ plan[c][callNo[c] + 1].op = "is_valid"
    /\ callNo' = [callNo EXCEPT ![c] = @ + 1]
    /\ LET k == plan[c][callNo[c] + 1]
           d == IF k.piped THEN hist[c][Len(hist[c])] ELSE k.data
       IN  hist' = [hist EXCEPT ![c] = Append(@, is_valid_result(d))]
    /\ UNCHANGED <<slotFile, flockHeld, slot0, plan, poolHosts, callVars, pre,
                   log, faultVars, pool>>

\* One client serializes a SlotData and parses the string back, or parses a
\* string, or asks whether a SlotData or a parsed string is valid.  The fields of the SlotData are None or any string: a prid up to
\* MaxPridLen, a timestamp that is empty, an ISO-8601 text or another text.
DataPrids == {None} \cup {Str(s) : s \in SeqPrids}
DataStamps == {None, Str(<<>>), Str(<<"a">>)} \cup {Str(<<ts>>) : ts \in Stamps}
DataStrings ==
    {None} \cup {Str(s) : s \in SeqPrids}
    \cup {Str(s \o <<"@", ts>>) : s \in SeqPrids, ts \in Stamps}
    \cup {Str(s \o <<"@", ts, "@">>) : s \in SeqPrids, ts \in Stamps}
DataCall(op, x, string, piped) ==
    [op |-> op, host |-> 1, slot |-> 0, prid |-> <<>>, data |-> x,
     string |-> string, piped |-> piped]
DataPlans ==
    {<<DataCall("to_string", SlotData(p, ts), None, FALSE),
       DataCall("from_string", SlotData(None, None), None, TRUE)>> :
        p \in DataPrids, ts \in DataStamps}
    \cup {<<DataCall("from_string", SlotData(None, None), s, FALSE)>> :
             s \in DataStrings}
    \cup {<<DataCall("is_valid", SlotData(p, ts), None, FALSE)>> :
             p \in DataPrids, ts \in DataStamps}
    \cup {<<DataCall("from_string", SlotData(None, None), s, FALSE),
            DataCall("is_valid", SlotData(None, None), None, TRUE)>> :
             s \in DataStrings}

InitData ==
    /\ slotFile = FilesWith(<<>>)
    /\ poolHosts = Hosts
    /\ \E k \in DataPlans :
          plan = [c \in Clients |-> IF c = "c1" THEN k ELSE <<>>]
    /\ InitCommon

NextData ==
    \E c \in Clients :
        SlotData_to_string(c) \/ SlotData_from_string(c) \/ SlotData_is_valid(c)

SpecData == InitData /\ [][NextData]_vars

NextQuery == \E c \in Clients : QueryStep(c) \/ HostCallStep(c) \/ LeaseStep(c)

SpecQuery == InitQuery /\ [][NextQuery]_vars

\* Slot 0 of host 1 is held by prid "b", which no client plays, with any
\* timestamp; two clients with other prids each make one call: lock or unlock
\* on a slot of host 1, available_slots on host 1, or lock_resource on a pool
\* that holds host 1.
\* a timestamp of the current run, and the oldest one
StaleStamps == {StampNames[1], StampNames[Len(StampNames)]}
StalePrid == [c \in Clients |-> IF c = "c1" THEN <<"a">> ELSE <<"a", "a">>]
StaleCalls(c) ==
    {Call(op, 1, s, StalePrid[c]) : op \in {"lock", "unlock"}, s \in {0, 1}}
    \cup {Call("available_slots", 1, 0, StalePrid[c]),
          Call("lock_resource", 1, 0, StalePrid[c])}

InitStale ==
    /\ \E ts \in StaleStamps, p \in {<<>>, <<"a">>} :
          slotFile = [h \in Hosts |-> [s \in FileIds |->
                         IF h = 1 /\ s = 0 THEN <<"b", "@", ts>>
                         ELSE IF h = 1 /\ s = 1 THEN p ELSE <<>>]]
    /\ poolHosts = {1}
    /\ \E k1 \in StaleCalls("c1"), k2 \in StaleCalls("c2") :
          plan = [c \in Clients |-> IF c = "c1" THEN <<k1>> ELSE <<k2>>]
    /\ InitCommon

NextStale ==
    \E c \in Clients :
        \/ HostCallStep(c)
        \/ PoolStep(c)
        \/ StartQuery(c)
        \/ RemoteHost_available_slots_return(c)
        \/ query_return(c)

SpecStale == InitStale /\ [][NextStale]_vars

\* Client c1 runs lock_resource with prid "a" on a pool that holds host 1
\* while client c2 locks or unlocks a slot of host 1 with prid "b"; each slot
\* of host 1 starts free, held by "b" or corrupted.
InitScan ==
    /\ \E f \in [SlotIds(1) -> PoolPayloads] :
          slotFile = [h \in Hosts |-> [s \in FileIds |->
                         IF h = 1 /\ s \in SlotIds(1) THEN f[s] ELSE <<>>]]
    /\ poolHosts = {1}
    /\ \E op \in {"lock", "unlock"}, s \in SlotIds(1) :
          plan = [c \in Clients |->
                    IF c = "c1" THEN <<Call("lock_resource", 1, 0, <<"a">>)>>
                    ELSE <<Call(op, 1, s, <<"b">>)>>]
    /\ InitCommon

NextScan == \E c \in Clients : HostCallStep(c) \/ PoolStep(c)

SpecScan == InitScan /\ [][NextScan]_vars

(* ------------------------------ properties ----------------------------- *)
Other(c) == CHOOSE d \in Clients : d # c
\* the current call of c has returned
Done(c) == pc[c] = "idle" /\ pool[c].ppc = "none" /\ callNo[c] >= 1
\* the slot data a reader finds in a file with this content
DataOf(content) == from_string(Str(strip(content)))
Free(content) == is_empty(DataOf(content))
ValidOccupied(content) == ~is_empty(DataOf(content)) /\ is_valid(DataOf(content))
Corrupted(content) == ~is_empty(DataOf(content)) /\ ~is_valid(DataOf(content))
\* the call of c issued no write command (echo or truncate)
NoWrite(c) == \A i \in 1..Len(log[c]) : log[c][i].cmd \notin {"echo", "truncate"}
Count(c, cmd) == Cardinality({i \in 1..Len(log[c]) : log[c][i].cmd = cmd})
HasAt(s) == \E i \in 1..Len(s) : s[i] = "@"

\* Both clients called lock on slot 0 of host 1 with different prids, the slot
\* was free at the start, no SSH fault occurred and both calls have returned.
RaceOver ==
    /\ \A c \in Clients : plan[c][1].op = "lock" /\ Done(c)
    /\ plan["c1"][1].prid # plan["c2"][1].prid
    /\ Free(slot0[1][0])
    /\ faults = 0

WinnerIs(w) ==
    /\ hist[w] = <<"true">>
    /\ hist[Other(w)] = <<"false">>
    /\ \E ts \in Stamps : slotFile[1][0] = plan[w][1].prid \o <<"@", ts>>
    /\ \E i \in 1..Len(log[w]) : log[w][i] = Entry(1, "echo", slotFile[1][0])

\* C1: two concurrent lock calls with different prids on a free slot, without
\* SSH failure: exactly one returns true, and after both returned the slot
\* file holds the payload prid@timestamp the winner wrote.
C1_MutualExclusion == RaceOver => \E w \in Clients : WinnerIs(w)

\* the race was decided by the flock: the loser met exit 42 on every attempt
\* and never read the slot file
C1_Witness ==
    /\ RaceOver
    /\ \E w \in Clients :
          /\ WinnerIs(w)
          /\ Count(Other(w), "flock") = MAX_RETRIES
          /\ Count(Other(w), "read") = 0

\* C2: clients racing lock with distinct prids on a free slot: at most one call
\* returns true, also when an SSH session of a client is dropped at any point.
C2_AtMostOneWinner ==
    ( /\ \A c \in Clients : plan[c][1].op = "lock"
      /\ plan["c1"][1].prid # plan["c2"][1].prid
      /\ Free(slot0[1][0]) )
    => ~(\A c \in Clients : Done(c) /\ hist[c] = <<"true">>)

\* the call of c is a finished lock (unlock) on a valid slot id
FinishedCall(c, op) ==
    Done(c) /\ args[c].op = op /\ is_valid_slot_id(H(c), S(c))

\* C3: lock on a slot that is valid-occupied by a different prid returns false,
\* issues no write, and the payload is unchanged afterwards.
C3_LockRefusedOnOccupied ==
    \A c \in Clients :
        ( /\ FinishedCall(c, "lock")
          /\ ValidOccupied(pre[c])
          /\ DataOf(pre[c]).prid # Str(args[c].prid) )
        => /\ result[c] = "false"
           /\ NoWrite(c)
           /\ slotFile[H(c)][S(c)] = pre[c]

C3_Witness ==
    \E c \in Clients :
        /\ FinishedCall(c, "lock")
        /\ ValidOccupied(pre[c])
        /\ DataOf(pre[c]).prid # Str(args[c].prid)
        /\ ~faulted[c]
        /\ Count(c, "read") = 2
        /\ result[c] = "false"

\* C4: lock on a slot whose payload is non-empty but invalid, when the flock is
\* acquired and no SSH command of the call fails, returns true and overwrites
\* the payload with prid@<now>.
C4_CorruptedReclaimable ==
    \A c \in Clients :
        ( /\ FinishedCall(c, "lock")
          /\ Corrupted(pre[c])
          /\ ~faulted[c] )
        => /\ result[c] = "true"
           /\ \E ts \in Stamps : slotFile[H(c)][S(c)] = args[c].prid \o <<"@", ts>>

C4_Witness ==
    \E c \in Clients :
        /\ FinishedCall(c, "lock")
        /\ Corrupted(pre[c])
        /\ ~faulted[c]
        /\ result[c] = "true"
        /\ slotFile[H(c)][S(c)] # pre[c]
        /\ Count(c, "echo") = 1

\* C5: unlock on a slot that is valid-occupied by a different prid returns
\* false and issues no write; the owner's payload is untouched.
C5_UnlockOwnership ==
    \A c \in Clients :
        ( /\ FinishedCall(c, "unlock")
          /\ ValidOccupied(pre[c])
          /\ DataOf(pre[c]).prid # Str(args[c].prid) )
        => /\ result[c] = "false"
           /\ NoWrite(c)
           /\ slotFile[H(c)][S(c)] = pre[c]

C5_Witness ==
    \E c \in Clients :
        /\ FinishedCall(c, "unlock")
        /\ ValidOccupied(pre[c])
        /\ DataOf(pre[c]).prid # Str(args[c].prid)
        /\ ~faulted[c]
        /\ Count(c, "read") = 3
        /\ result[c] = "false"

\* C6: for every prid string (a prid never contains "@"), after
\* lock(slot, prid) returned true, with no operation of another client and no
\* SSH failure, unlock(slot, prid) returns true and leaves the slot file empty.
C6_LockUnlockRoundTrip ==
    \A c \in Clients :
        ( /\ Done(c) /\ callNo[c] = 2
          /\ plan[c][1].op = "lock" /\ plan[c][2].op = "unlock"
          /\ plan[c][1].prid = plan[c][2].prid
          /\ ~HasAt(plan[c][1].prid)
          /\ hist[c][1] = "true"
          /\ faults = 0 )
        => /\ hist[c][2] = "true"
           /\ slotFile[H(c)][S(c)] = <<>>

\* C7: unlock on a slot whose payload is empty, when the flock is acquired and
\* no SSH command of the call fails, returns true for any prid, issues no
\* write and leaves the slot empty; so two unlocks in a row both return true.
C7_IdempotentRelease ==
    \A c \in Clients :
        ( /\ FinishedCall(c, "unlock")
          /\ strip(pre[c]) = <<>>
          /\ ~faulted[c] )
        => /\ result[c] = "true"
           /\ NoWrite(c)
           /\ slotFile[H(c)][S(c)] = pre[c]

\* the second of two unlocks in a row, the first of which emptied the slot
C7_Witness ==
    \E c \in Clients :
        /\ Done(c) /\ callNo[c] = 2
        /\ plan[c][1].op = "unlock" /\ plan[c][2].op = "unlock"
        /\ ~Free(slot0[1][0])
        /\ strip(pre[c]) = <<>>
        /\ ~faulted[c]
        /\ hist[c] = <<"true", "true">>
        /\ NoWrite(c)

\* lock_resource of c has returned or raised
PoolDone(c) ==
    /\ Done(c)
    /\ plan[c][callNo[c]].op = "lock_resource"
\* the commands the call of c issued on host h
CountOn(c, h, cmds) ==
    Cardinality({i \in 1..Len(log[c]) : log[c][i].host = h /\ log[c][i].cmd \in cmds})
\* what lock_resource of c gave back is a lease on a slot that holds its prid
Leased(c) ==
    /\ hist[c][callNo[c]] = "lease"
    /\ pool[c].lease.host \in poolHosts
    /\ pool[c].lease.slot \in SlotIds(pool[c].lease.host)
\* a slot available_slots() lists when it reads this content
Available(content) == Free(content) \/ Corrupted(content)

\* C8: lock_resource always ends by returning a LockedResource or null and
\* never raises, whatever fails in is_operational, available_slots or
\* host.lock: a call under way can always take its next step, and a call that
\* ended gave back a lease or null.
C8_LockResourceNeverRaises ==
    \A c \in Clients :
        /\ pool[c].ret # "raised"
        /\ pool[c].ppc # "none" =>
              ENABLED (PoolStep(c) \/ LockedSlotStep(c) \/ LockBodyStep(c))
        /\ PoolDone(c) => hist[c][callNo[c]] \in {"lease", "null"}

\* available_slots raised on one host, and lock_resource still returned
C8_Witness ==
    \E c \in Clients :
        /\ PoolDone(c)
        /\ pool[c].skipped # pool[c].down
        /\ hist[c][callNo[c]] \in {"lease", "null"}

\* C9: when every host of the pool reports an empty available_slots list, or
\* the pool has no hosts, lock_resource returns null and attempts no
\* host.lock: it issues no flock command and no slot write. Every host reports
\* an empty list when all its slots are valid-occupied and its scan succeeds.
C9_NoCapacityGivesNull ==
    \A c \in Clients :
        ( /\ PoolDone(c)
          /\ \/ pool[c].resources = <<>>
             \/ /\ pool[c].skipped = {}
                /\ \A h \in poolHosts : \A s \in SlotIds(h) :
                      ValidOccupied(slot0[h][s]) )
        => /\ hist[c][callNo[c]] = "null"
           /\ Count(c, "flock") = 0
           /\ NoWrite(c)
           /\ slotFile = slot0

\* every host of a pool of NHosts hosts was scanned and reported no slot
C9_Witness ==
    \E c \in Clients :
        /\ PoolDone(c)
        /\ poolHosts = Hosts
        /\ pool[c].skipped = {}
        /\ \A h \in poolHosts : \A s \in SlotIds(h) : ValidOccupied(slot0[h][s])
        /\ Count(c, "read") = 2 * (NSlots + NHosts - 1)
        /\ hist[c][callNo[c]] = "null"

\* C10: a host that is not operational, or on which available_slots raises, is
\* skipped: available_slots is not queried on a host that is not operational,
\* no lock is attempted on a skipped host, and when nothing else fails
\* lock_resource returns a lease on another host of the pool that has an
\* available slot.
C10_HostFailureIsolation ==
    \A c \in Clients :
        PoolDone(c) =>
            /\ \A h \in pool[c].down : CountOn(c, h, {"read"}) = 0
            /\ \A h \in pool[c].skipped :
                  CountOn(c, h, {"flock", "echo", "truncate"}) = 0
            /\ ( /\ pool[c].skipped # {}
                 /\ faults = Cardinality(pool[c].skipped)
                 /\ \E h \in poolHosts \ pool[c].skipped : \E s \in SlotIds(h) :
                       Available(slot0[h][s]) )
               => /\ Leased(c)
                  /\ pool[c].lease.host \notin pool[c].skipped
                  /\ Available(slot0[pool[c].lease.host][pool[c].lease.slot])
                  /\ \E ts \in Stamps :
                        slotFile[pool[c].lease.host][pool[c].lease.slot]
                            = PoolPrid(c) \o <<"@", ts>>

\* one host was skipped although it had an available slot, and the lease is on
\* the other host
C10_Witness ==
    \E c \in Clients :
        /\ PoolDone(c)
        /\ \E h \in pool[c].skipped : \E s \in SlotIds(h) : Available(slot0[h][s])
        /\ faults = Cardinality(pool[c].skipped)
        /\ Leased(c)
        /\ pool[c].lease.host \notin pool[c].skipped

\* entry a of the resources has a strictly higher ratio of available slots to
\* all slots than entry b: |a| / slots(a) > |b| / slots(b)
HigherRatio(a, b) == Len(a.slots) * slots(b.host) > Len(b.slots) * slots(a.host)
\* the entry of host h in the resources of c
ResourceOf(c, h) ==
    pool[c].resources[CHOOSE i \in 1..Len(pool[c].resources) :
                          pool[c].resources[i].host = h]
\* hosts on which the call of c attempted host.lock, in the order of the
\* first attempt
RECURSIVE HostsTried(_, _)
HostsTried(c, n) ==
    IF n = 0 THEN <<>>
    ELSE LET before == HostsTried(c, n - 1)
             h == pool[c].attempts[n].host
         IN  IF \A j \in 1..Len(before) : before[j] # h
             THEN Append(before, h) ELSE before

\* C11: lock_resource attempts hosts in non-increasing order of
\* len(available_slots) / host.slots as its scan measured it: once the
\* resources are sorted no entry precedes one of strictly higher ratio, the
\* hosts on which a lock was attempted are an initial part of that order, and
\* when no SSH failure occurs the lease is on a host of maximal ratio.
C11_EmptierHostsFirst ==
    \A c \in Clients :
        pool[c].r >= 1 =>
            LET res == pool[c].resources
                tried == HostsTried(c, Len(pool[c].attempts))
            IN  /\ \A i, j \in 1..Len(res) : i < j => ~HigherRatio(res[j], res[i])
                /\ Len(tried) <= Len(res)
                /\ \A i \in 1..Len(tried) : tried[i] = res[i].host
                /\ (PoolDone(c) /\ ~faulted[c] /\ res # <<>>) =>
                      /\ Leased(c)
                      /\ \A i \in 1..Len(res) :
                            ~HigherRatio(res[i], ResourceOf(c, pool[c].lease.host))

\* the scan met host 1 first, with half of its slots available, then host 2
\* with its only slot available; the lease is on host 2
C11_Witness ==
    \E c \in Clients :
        /\ PoolDone(c) /\ ~faulted[c]
        /\ pool[c].hosts = <<1, 2>>
        /\ Len(pool[c].resources) = 2
        /\ Len(ResourceOf(c, 1).slots) < slots(1)
        /\ Leased(c)
        /\ pool[c].lease.host = 2

\* the (host, slot) pairs of the resources in the order of the two loops
RECURSIVE Flat(_)
Flat(res) ==
    IF res = <<>> THEN <<>>
    ELSE [i \in 1..Len(Head(res).slots) |->
             [host |-> Head(res).host, slot |-> Head(res).slots[i]]]
         \o Flat(Tail(res))

\* C12: lock_resource returns a lease for the first (host, slot) whose
\* host.lock returns true and attempts no lock after it; after a failed attempt
\* it tries the next slot, then the next host, in the order of the sorted
\* resources; it returns null only after host.lock failed for every available
\* slot of every scanned host.
C12_FirstSuccessWins ==
    \A c \in Clients :
        pool[c].r >= 1 =>
            LET att == pool[c].attempts
                all == Flat(pool[c].resources)
            IN  /\ Len(att) <= Len(all)
                /\ \A n \in 1..Len(att) :
                      /\ att[n].host = all[n].host /\ att[n].slot = all[n].slot
                      /\ n < Len(att) => att[n].locked \in {"false", "raised"}
                /\ PoolDone(c) =>
                      \/ /\ hist[c][callNo[c]] = "lease"
                         /\ att # <<>>
                         /\ att[Len(att)].locked = "true"
                         /\ pool[c].lease.host = att[Len(att)].host
                         /\ pool[c].lease.slot = att[Len(att)].slot
                      \/ /\ hist[c][callNo[c]] = "null"
                         /\ Len(att) = Len(all)
                         /\ \A n \in 1..Len(att) : att[n].locked \in {"false", "raised"}

\* the first attempt failed, a later one succeeded and ended the call
C12_Witness ==
    \E c \in Clients :
        /\ PoolDone(c)
        /\ Len(pool[c].attempts) >= 2
        /\ pool[c].attempts[1].locked = "false"
        /\ pool[c].attempts[Len(pool[c].attempts)].locked = "true"
        /\ Len(pool[c].attempts) < Len(Flat(pool[c].resources))
        /\ hist[c][callNo[c]] = "lease"

\* the call c made last, as planned
LastCall(c) == plan[c][callNo[c]]
\* c is in, or has finished, a call of op with a slot id outside range(slots)
InvalidIdCall(c, ops) ==
    /\ callNo[c] >= 1
    /\ LastCall(c).op \in ops
    /\ ~(LastCall(c).slot >= 0 /\ LastCall(c).slot < slots(LastCall(c).host))

\* C13: lock, unlock and is_free with a slot id outside [0, slots) return
\* false, never raise, issue no SSH command and leave every slot file
\* unchanged.
C13_InvalidSlotId ==
    \A c \in Clients :
        InvalidIdCall(c, {"lock", "unlock", "is_free"}) =>
            /\ log[c] = <<>>
            /\ slotFile = slot0
            /\ exc[c] = "none" /\ pool[c].ret # "raised"
            /\ \A h \in Hosts : \A s \in FileIds : flockHeld[h][s] # c
            /\ Done(c) => hist[c][callNo[c]] = "false"

\* a call with the id -1, or with the id slots, returned false
C13_Witness ==
    \E c \in Clients :
        /\ InvalidIdCall(c, {"lock", "unlock", "is_free"})
        /\ Done(c)
        /\ hist[c][callNo[c]] = "false"
        /\ \/ LastCall(c).op = "lock" /\ LastCall(c).slot = -1
           \/ LastCall(c).op = "unlock" /\ LastCall(c).slot = slots(LastCall(c).host)
           \/ LastCall(c).op = "is_free" /\ LastCall(c).slot = slots(LastCall(c).host)

\* the lock call of c ended without ever holding the flock: every attempt of
\* the flock command met exit 42 or an SSH failure (lock_stdin stayed None)
FlockNotAcquired(c) ==
    /\ FinishedCall(c, "lock")
    /\ Count(c, "flock") >= 1
    /\ sess[c].stdin = "none"

\* C14: when the flock on slot_<id>.lock cannot be acquired (exit 42 because
\* another client holds it, or the verification through stdin fails),
\* RemoteHost.lock returns false and that call neither reads nor writes the
\* slot data file.
C14_FlockNotAcquired ==
    \A c \in Clients :
        FlockNotAcquired(c) =>
            /\ result[c] = "false"
            /\ Count(c, "flock") = MAX_RETRIES
            /\ Count(c, "read") = 0
            /\ NoWrite(c)

\* one attempt failed on the SSH side, the others met the flock of the other
\* client, which wrote its payload meanwhile
C14_Witness ==
    \E c \in Clients :
        /\ FlockNotAcquired(c)
        /\ faulted[c]
        /\ result[c] = "false"
        /\ slotFile[1][0] # slot0[1][0]

\* C15: LockedResource.unlock() calls host.unlock(slot, prid) with the slot and
\* prid of the lease, never raises and returns no result, whether host.unlock
\* returned true or false or met SSH, lock, read or write failures.
C15_LeaseUnlockInfallible ==
    \A c \in Clients :
        (callNo[c] >= 1 /\ LastCall(c).op = "LockedResource.unlock") =>
            /\ args[c] = Call("unlock", LastCall(c).host, LastCall(c).slot,
                              LastCall(c).prid)
            /\ result[c] # "raised"
            /\ pool[c].ret # "raised"
            /\ Done(c) => /\ result[c] \in {"true", "false"}
                          /\ hist[c][callNo[c]] = "none"

\* host.unlock met an SSH failure and returned false; the caller saw nothing
C15_Witness ==
    \E c \in Clients :
        /\ callNo[c] >= 1 /\ LastCall(c).op = "LockedResource.unlock"
        /\ Done(c)
        /\ faulted[c]
        /\ result[c] = "false"
        /\ hist[c][callNo[c]] = "none"

\* ids of the slots of host h whose file, as it was at the start, is empty or
\* corrupted
AvailableIds(h) == {s \in SlotIds(h) : Available(slot0[h][s])}

\* C16: available_slots() returns exactly the ids in [0, slots) whose payload
\* is empty or corrupted, takes no flock and writes nothing; occupied_slots()
\* returns the other ids of [0, slots), so for one snapshot of the files the two
\* sets are disjoint and together are all slot ids.
C16_AvailableAndOccupied ==
    \A c \in Clients :
        (callNo[c] >= 1 /\ LastCall(c).op \in {"available_slots", "occupied_slots"}) =>
            /\ Count(c, "flock") = 0
            /\ NoWrite(c)
            /\ slotFile = slot0
            /\ (Done(c) /\ hist[c][callNo[c]] = "slots") =>
                  LET h == LastCall(c).host
                  IN  IF LastCall(c).op = "available_slots"
                      THEN pool[c].value = AvailableIds(h)
                      ELSE /\ pool[c].value \cap AvailableIds(h) = {}
                           /\ pool[c].value \cup AvailableIds(h) = SlotIds(h)

\* occupied_slots on host 1, which has a corrupted, a free or an occupied slot
\* beside one held by another prid, returned the held one only
C16_Witness ==
    \E c \in Clients :
        /\ callNo[c] >= 1 /\ LastCall(c).op = "occupied_slots"
        /\ Done(c) /\ hist[c][callNo[c]] = "slots"
        /\ LastCall(c).host = 1
        /\ Corrupted(slot0[1][1])
        /\ pool[c].value = {0}

\* the text before the "@" of a payload prid@timestamp
Owner(content) == SubSeq(content, 1, Len(content) - 2)
\* the content is the payload of a non-empty prid without "@" or whitespace
\* at its ends, with the timestamp ts
HeldWith(content, ts) ==
    /\ Len(content) >= 3
    /\ content = Owner(content) \o <<"@", ts>>
    /\ ~HasAt(Owner(content))
    /\ strip(Owner(content)) = Owner(content)

\* C17: a slot that is valid-occupied by prid A stays occupied by A until
\* unlock(slot, A) succeeds: whatever its timestamp and whatever lock, unlock,
\* available_slots and lock_resource calls clients with other prids make, the
\* slot is never listed as available, never overwritten and never leased.
C17_NoExpiry ==
    ( /\ \E ts \in AllStamps : HeldWith(slot0[1][0], ts)
      /\ \A c \in Clients : \A n \in 1..Len(plan[c]) :
            plan[c][n].prid # Owner(slot0[1][0]) )
    => /\ slotFile[1][0] = slot0[1][0]
       /\ \A c \in Clients :
             /\ pc[c] \in {"lk_write", "ul_write"} => ~(H(c) = 1 /\ S(c) = 0)
             /\ (pool[c].i \in 1..Len(pool[c].hosts) /\ PoolHost(c) = 1)
                   => 0 \notin Range(pool[c].available_slots)
             /\ pool[c].caller = "available_slots" => 0 \notin pool[c].value
             /\ \A i \in 1..Len(pool[c].resources) :
                   pool[c].resources[i].host = 1
                      => 0 \notin Range(pool[c].resources[i].slots)
             /\ pool[c].ret = "lease" => pool[c].lease # [host |-> 1, slot |-> 0]
             /\ (args[c].op = "lock" /\ H(c) = 1 /\ S(c) = 0) => ~locked[c]

\* the slot carries the oldest timestamp; one client was refused the lock on
\* it and the other got a lease on the slot beside it
C17_Witness ==
    /\ slot0[1][0] = <<"b", "@", StampNames[Len(StampNames)]>>
    /\ \A c \in Clients : Done(c)
    /\ \E c \in Clients :
          /\ LastCall(c) = Call("lock", 1, 0, StalePrid[c])
          /\ hist[c] = <<"false">>
          /\ ~faulted[c]
          /\ hist[Other(c)] = <<"lease">>
          /\ pool[Other(c)].lease = [host |-> 1, slot |-> 1]


\* the first call of c is from_config, and it is over
Configured(c) ==
    /\ Len(plan[c]) >= 1
    /\ plan[c][1].op = "from_config"
    /\ callNo[c] >= 1
\* the config of call k lists host h for the requested platform with
\* enabled: true
EnabledIn(k, h) ==
    /\ k.config.has_pools
    /\ k.platform \in DOMAIN k.config.pools
    /\ h \in DOMAIN k.config.pools[k.platform]
    /\ k.config.pools[k.platform][h].has_enabled
    /\ k.config.pools[k.platform][h].enabled

\* C18: a host whose enabled flag is false or absent in the config (or that
\* the config does not list for the platform) is not in the pool that
\* from_config builds; no lock_resource call on that pool iterates over it,
\* issues an SSH command to it, touches its slot files or flock, or returns a
\* lease on it.
C18_DisabledHostsNeverUsed ==
    \A c \in Clients : \A h \in Hosts :
        (Configured(c) /\ ~EnabledIn(plan[c][1], h))
        => /\ h \notin poolHosts
           /\ \A i \in 1..Len(log[c]) : log[c][i].host # h
           /\ \A i \in 1..Len(pool[c].hosts) : pool[c].hosts[i] # h
           /\ pool[c].ret = "lease" => pool[c].lease.host # h
           /\ slotFile[h] = slot0[h]
           /\ \A s \in FileIds : flockHeld[h][s] = NoClient

\* lock_resource returned a lease although a host with all slots free is
\* listed in the config without the enabled key
C18_Witness ==
    \E c \in Clients : \E h \in Hosts :
        /\ Configured(c)
        /\ hist[c] = <<"pool", "lease">>
        /\ plan[c][1].platform \in DOMAIN plan[c][1].config.pools
        /\ h \in DOMAIN plan[c][1].config.pools[plan[c][1].platform]
        /\ ~plan[c][1].config.pools[plan[c][1].platform][h].has_enabled
        /\ \A s \in SlotIds(h) : slot0[h][s] = <<>>
        /\ pool[c].lease.host # h

\* the config of call k has no slots_dir, or an empty one
NoSlotsDir(k) == k.config.slots_dir \in {"absent", "empty"}
\* the config of call k has no entry, or an empty one, for the platform
NoPlatformEntry(k) ==
    \/ ~k.config.has_pools
    \/ k.platform \notin DOMAIN k.config.pools
    \/ DOMAIN k.config.pools[k.platform] = {}

\* C19: from_config raises RuntimeError exactly when the config has no
\* slots_dir or no entry for the requested platform, and then there is no
\* pool: no host list, no lock_resource call, no SSH command.  A
\* lock_resource call on a pool never raises: it returns a lease or None
\* whatever fails on a host or a slot.
C19_ConfigErrorsFatal ==
    \A c \in Clients :
        Configured(c)
        => /\ (NoSlotsDir(plan[c][1]) \/ NoPlatformEntry(plan[c][1]))
                 <=> hist[c][1] = "RuntimeError"
           /\ hist[c][1] = "RuntimeError"
                 => /\ poolHosts = {}
                    /\ callNo[c] = 1
                    /\ pool[c] = NoPool
                    /\ log[c] = <<>>
           /\ pool[c].ret # "raised"
           /\ Len(hist[c]) >= 2 => hist[c][2] \in {"lease", "null"}

\* from_config raised RuntimeError for a config that has a slots_dir and
\* pools, but none for the requested platform
C19_Witness ==
    \E c \in Clients :
        /\ Configured(c)
        /\ hist[c] = <<"RuntimeError">>
        /\ plan[c][1].config.slots_dir = "dir"
        /\ plan[c][1].config.has_pools
        /\ DOMAIN plan[c][1].config.pools # {}
        /\ plan[c][1].platform \notin DOMAIN plan[c][1].config.pools


\* the first call of c serializes x and the second parses the result
RoundTrip(c) ==
    /\ Len(plan[c]) = 2
    /\ plan[c][1].op = "to_string"
    /\ plan[c][2].op = "from_string"
    /\ plan[c][2].piped
\* both fields are strings, the prid has no "@" and the timestamp is an
\* ISO-8601 text
ValidData(x) ==
    /\ x.prid.some
    /\ \A i \in 1..Len(x.prid.val) : x.prid.val[i] # "@"
    /\ x.timestamp.some
    /\ \E ts \in AllStamps : x.timestamp.val = <<ts>>
\* each field is None or the empty string
EmptyData(x) ==
    /\ x.prid \in {None, Str(<<>>)}
    /\ x.timestamp \in {None, Str(<<>>)}

\* C20: for every SlotData x whose prid is a string without "@" and whose
\* timestamp is a valid ISO-8601 string, from_string(x.to_string()) has the
\* prid and the timestamp of x; an empty SlotData serializes to "", and
\* from_string("") is SlotData(None, None).
C20_RoundTrip ==
    \A c \in Clients :
        /\ (RoundTrip(c) /\ Len(hist[c]) = 2 /\ ValidData(plan[c][1].data))
              => /\ hist[c][2].prid = plan[c][1].data.prid
                 /\ hist[c][2].timestamp = plan[c][1].data.timestamp
        /\ (RoundTrip(c) /\ Len(hist[c]) >= 1 /\ EmptyData(plan[c][1].data))
              => hist[c][1] = <<>>
        /\ ( /\ Len(plan[c]) = 1
             /\ plan[c][1].op = "from_string"
             /\ plan[c][1].string = Str(<<>>)
             /\ Len(hist[c]) = 1 )
              => hist[c][1] = SlotData(None, None)

\* a SlotData whose prid starts with whitespace went through to_string and
\* from_string
C20_Witness ==
    \E c \in Clients :
        /\ RoundTrip(c)
        /\ Len(hist[c]) = 2
        /\ ValidData(plan[c][1].data)
        /\ plan[c][1].data.prid = Str(<<" ", "a">>)


\* the only call of c is x.is_valid on a given SlotData x, and it is over
ValidityAsked(c) ==
    /\ Len(plan[c]) = 1
    /\ plan[c][1].op = "is_valid"
    /\ Len(hist[c]) = 1
\* c parsed a string and read is_valid of the result
ParsedAndAsked(c) ==
    /\ Len(plan[c]) = 2
    /\ plan[c][1].op = "from_string"
    /\ plan[c][2].op = "is_valid"
    /\ Len(hist[c]) = 2
\* the text is an ISO-8601 datetime
IsoText(o) == o.some /\ \E ts \in AllStamps : o.val = <<ts>>
NoAt(s) == \A i \in 1..Len(s) : s[i] # "@"

\* C21: is_valid is true exactly when the SlotData is empty, or its prid is
\* a non-empty string without "@" and its timestamp is an ISO-8601 text.
C21_ValidIff ==
    \A c \in Clients :
        ValidityAsked(c)
        => LET x == plan[c][1].data
           IN  hist[c][1] = "True"
               <=> \/ EmptyData(x)
                   \/ /\ x.prid.some
                      /\ x.prid.val # <<>>
                      /\ NoAt(x.prid.val)
                      /\ IsoText(x.timestamp)

\* C22: a string that parses to a valid non-empty SlotData has the form
\* <prid>@<iso8601> with one "@"; a string with two or more "@" parses to an
\* invalid SlotData.
C22_SingleSeparator ==
    \A c \in Clients :
        (ParsedAndAsked(c) /\ hist[c][2] = "True" /\ ~EmptyData(hist[c][1]))
        => /\ plan[c][1].string.some
           /\ \E ts \in AllStamps :
                 LET s == plan[c][1].string.val
                 IN  /\ Len(s) >= 2
                     /\ s[Len(s)] = ts
                     /\ s[Len(s) - 1] = "@"
                     /\ NoAt(SubSeq(s, 1, Len(s) - 2))


\* c is inside, or has finished, a call of connect, exec_command or run
SshCall(c) == callNo[c] >= 1 /\ plan[c][callNo[c]].op \in SshOps
\* the errors the session is configured to retry on: no connection could be
\* made, or an SSH protocol error (of any subclass)
RetriedError(o) ==
    o \in {"NoValidConnectionsError", "SSHException",
           "AuthenticationException", "BadHostKeyException"}

C24_NoRetryOfNonTransient ==
    \A c \in Clients :
        SshCall(c)
        => \A i \in 1..Len(log[c]) :
              log[c][i].data \in {"AuthenticationException", "exit 1"}
              => /\ i = Len(log[c])
                 /\ pc[c] = "idle"
                 /\ hist[c][callNo[c]] = log[c][i].data


\* commands that read or write the slot data file
FileCmds == {"read", "echo", "truncate"}
AllClosed == [slot |-> "closed", lock |-> "closed", stdin |-> "closed"]

C27_NoLeakedSession ==
    \A c \in Clients :
        (pc[c] = "idle" /\ callNo[c] >= 1)
        => /\ sess[c].slot # "open"
           /\ sess[c].lock # "open"


\* the content is a valid payload of a prid other than prid
HeldByOther(content, prid) ==
    \E ts \in AllStamps :
        /\ HeldWith(content, ts)
        /\ Owner(content) # prid
\* no client of the behaviour calls unlock
NoUnlocker == \A c \in Clients : \A n \in 1..Len(plan[c]) : plan[c][n].op # "unlock"

\* C28: when lock_resource tries a slot that its scan listed as available
\* and that is valid-occupied by another prid when host.lock starts (nobody
\* unlocking meanwhile), that host.lock does not reach the write and returns
\* False, no lease is made on the slot, and lock_resource goes on to its
\* next candidate, if it has one.
C28_RecheckUnderLock ==
    \A c \in Clients :
        (pool[c].caller = "lock_resource" /\ NoUnlocker)
        => \A n \in 1..Len(pool[c].attempts) :
              LET a == pool[c].attempts[n]
              IN  HeldByOther(a.pre, PoolPrid(c))
                  => /\ a.locked \in {"none", "false"}
                     /\ slotFile[a.host][a.slot] = a.pre
                     /\ (n = Len(pool[c].attempts) /\ pool[c].ppc = "locking")
                           => pc[c] # "lk_write" /\ ~locked[c]
                     /\ pool[c].ret = "lease"
                           => pool[c].lease # [host |-> a.host, slot |-> a.slot]
                     /\ pool[c].ret \in {"lease", "null"}
                           => \/ Len(pool[c].attempts) > n
                              \/ n = Len(Flat(pool[c].resources))

\* lock_resource found a slot free in its scan, another client occupied it
\* before host.lock, the lock was refused, and the next candidate was leased
C28_Witness ==
    \E c \in Clients :
        /\ pool[c].caller = "lock_resource"
        /\ NoUnlocker
        /\ pool[c].ret = "lease"
        /\ Len(pool[c].attempts) = 2
        /\ slot0[pool[c].attempts[1].host][pool[c].attempts[1].slot] = <<>>
        /\ HeldByOther(pool[c].attempts[1].pre, PoolPrid(c))
        /\ pool[c].attempts[1].locked = "false"
        /\ pool[c].attempts[2].locked = "true"


\* what the call of c writes, if it writes
NewPayloads(c) ==
    IF args[c].op = "lock"
    THEN {args[c].prid \o <<"@", ts>> : ts \in AllStamps}
    ELSE {<<>>}

\* C29: a client whose sessions were closed inside lock or unlock holds no
\* flock, so the lock file of no slot stays locked by it; and, when no other
\* client wrote, the slot file holds what it held when the call started or
\* the complete payload the call writes.
C29_CrashReleasesFlock ==
    \A c \in Clients :
        pc[c] = "crashed"
        => /\ \A h \in Hosts : \A s \in FileIds : flockHeld[h][s] # c
           /\ (\A d \in Clients \ {c} : NoWrite(d))
                 => \/ slotFile[H(c)][S(c)] = pre[c]
                    \/ slotFile[H(c)][S(c)] \in NewPayloads(c)

\* a client crashed after it had written under the flock, and the other
\* client then acquired the flock of the same slot
C29_Witness ==
    \E c, d \in Clients :
        /\ c # d
        /\ pc[c] = "crashed"
        /\ \E i, j \in 1..Len(log[c]) :
              /\ i < j
              /\ log[c][i].cmd = "flock"
              /\ log[c][j].cmd \in {"echo", "truncate"}
        /\ \A i \in 1..Len(log[c]) : log[c][i].cmd # "close_stdin"
        /\ H(d) = H(c) /\ S(d) = S(c)
        /\ sess[d].stdin = "open"
        /\ flockHeld[H(d)][S(d)] = d


\* C30: one lock or unlock call runs the flock command at most 3 times; every
\* attempt but the last one failed; once an attempt is confirmed no further
\* one is made; and after a third failure the work body does not run: no
\* read and no write of the slot file.
C30_AcquisitionRetry ==
    \A c \in Clients :
        callNo[c] >= 1
        => /\ Count(c, "flock") <= 3
           /\ tries[c] <= 3
           /\ sess[c].stdin = "none" => Count(c, "flock") = tries[c]
           /\ sess[c].stdin # "none"
                 => /\ Count(c, "flock") = tries[c] + 1
                    /\ pc[c] # "acquire"
           /\ tries[c] = 3
                 => /\ sess[c].stdin = "none"
                    /\ pc[c] \notin WorkPcs \cup {"acquire"}
                    /\ \A i \in 1..Len(log[c]) : log[c][i].cmd \notin FileCmds

\* an unlock call succeeded at its third attempt to get the flock
C30_Witness ==
    \E c \in Clients :
        /\ args[c].op = "unlock"
        /\ tries[c] = 2
        /\ Count(c, "flock") = 3
        /\ sess[c].stdin = "closed"
        /\ pc[c] = "return"

\* a call of lock or unlock ends: its last pass through _locked_slot is over
\* and the decorated function hands its outcome to the caller
CallEnds(c) == pc[c] = "return" /\ pc'[c] = "idle"

\* the pass that just ended failed before the flock was confirmed
\* (sessions not opened, or three conflicts): SlotLockError
FailedToAcquire(c) == exc[c] # "none" /\ sess[c].stdin = "none"

\* the pass that just ended failed inside the critical section: a read or a
\* write of the slot file raised while the flock was held
FailedInBody(c) == exc[c] # "none" /\ sess[c].stdin = "closed"

\* C31: a lock call whose pass failed with SlotLockError (flock contended
\* three times, or the sessions could not be opened) is attempted again as a
\* whole: it only ends in failure once three passes have been made.
C31_OuterRetryOnLockError ==
    [][\A c \in Clients :
          (CallEnds(c) /\ args[c].op = "lock" /\ FailedToAcquire(c))
          => outerTries[c] = MAX_RETRIES - 1]_vars

\* C32: a lock or unlock call whose read or write of the slot file failed
\* inside the critical section is attempted again as a whole: it only ends
\* in failure once three passes have been made.
C32_OuterRetryOnIOError ==
    [][\A c \in Clients :
          (CallEnds(c) /\ args[c].op \in {"lock", "unlock"} /\ FailedInBody(c))
          => outerTries[c] = MAX_RETRIES - 1]_vars

\* C33: a lock or unlock call that ends after a read or a write of the slot
\* file failed inside the critical section raises to its caller; it does not
\* return false.
C33_IOErrorSurfaced ==
    [][\A c \in Clients :
          (CallEnds(c) /\ args[c].op \in {"lock", "unlock"} /\ FailedInBody(c))
          => result'[c] = "raised"]_vars

\* Client c1 runs lock_resource with prid "a" on a pool that holds host 1 and
\* then, with the same prid, runs lock_resource again or locks one slot of
\* host 1; each slot of host 1 starts free or already held by "a".
SamePayloads == { <<>>, <<"a", "@", "t1">> }

InitSame ==
    /\ \E f \in [SlotIds(1) -> SamePayloads] :
          slotFile = [h \in Hosts |-> [s \in FileIds |->
                         IF h = 1 /\ s \in SlotIds(1) THEN f[s] ELSE <<>>]]
    /\ poolHosts = {1}
    /\ \E k \in {Call("lock_resource", 1, 0, <<"a">>)}
                 \cup {Call("lock", 1, s, <<"a">>) : s \in SlotIds(1)} :
          plan = [c \in Clients |->
                    IF c = "c1" THEN <<Call("lock_resource", 1, 0, <<"a">>), k>>
                    ELSE <<>>]
    /\ InitCommon

NextSame ==
    \E c \in Clients :
        StartCall(c) \/ PoolStep(c) \/ LockedSlotStep(c) \/ LockBodyStep(c)

SpecSame == InitSame /\ [][NextSame]_vars

\* the content is a well-formed payload whose owner is prid
HeldBySame(content, prid) ==
    Owner(content) = prid /\ \E ts \in AllStamps : HeldWith(content, ts)

\* the slots of the pool that hold a well-formed payload of prid in files
SlotsOf(files, prid) ==
    {hs \in ConfiguredSlots : HeldBySame(files[hs[1]][hs[2]], prid)}

\* the leases the calls of c have returned so far
Leases(c) == Cardinality({n \in 1..Len(hist[c]) : hist[c][n] = "lease"})

\* C34: lock is not re-entrant. A lock call on a slot that holds a valid
\* payload of the caller's own prid returns false and leaves the payload,
\* timestamp included, as it was; the same holds for each host.lock that
\* lock_resource makes; so each lease that lock_resource calls with one prid
\* return, none being released, is on a slot of its own that did not hold
\* that prid before.
C34_NotReentrant ==
    \A c \in Clients :
        /\ (FinishedCall(c, "lock") /\ plan[c][callNo[c]].op = "lock"
               /\ HeldBySame(pre[c], args[c].prid))
           => /\ result[c] = "false"
              /\ slotFile[H(c)][S(c)] = pre[c]
        /\ \A i \in 1..Len(pool[c].attempts) :
              LET t == pool[c].attempts[i]
              IN  HeldBySame(t.pre, <<"a">>)
                  => /\ t.locked # "true"
                     /\ slotFile[t.host][t.slot] = t.pre
        /\ Cardinality(SlotsOf(slotFile, <<"a">>))
              >= Cardinality(SlotsOf(slot0, <<"a">>)) + Leases(c)

\* c1 holds a lease from lock_resource on a slot that was free, and its later
\* lock of that slot with the same prid ran its body and was refused
C34_Witness ==
    /\ hist["c1"] = <<"lease", "false">>
    /\ FinishedCall("c1", "lock")
    /\ slot0[1][S("c1")] = <<>>
    /\ faults = 0
    /\ HeldBySame(pre["c1"], <<"a">>)
    /\ slotFile[1][S("c1")] = pre["c1"]
    /\ Count("c1", "read") >= 2

\* Clients c1 and c2 run lock_resource at the same time, with prids "a" and
\* "b", on a pool that holds host 1, whose slots start free.
InitPair ==
    /\ slotFile = FilesWith(<<>>)
    /\ poolHosts = {1}
    /\ plan = [c \in Clients |->
                 <<Call("lock_resource", 1, 0, IF c = "c1" THEN <<"a">> ELSE <<"b">>)>>]
    /\ InitCommon

SpecPair == InitPair /\ [][NextPool]_vars

\* the slots whose flock client c holds
FlocksOf(c) == {hs \in Hosts \X FileIds : flockHeld[hs[1]][hs[2]] = c}

\* client c has something left to do
Running(c) ==
    pc[c] # "idle" \/ pool[c].ppc # "none" \/ callNo[c] < Len(plan[c])

\* C35: no hold-and-wait. A client holds the flock of at most one slot, the
\* slot of its current call; between two host.lock calls of lock_resource,
\* and when lock_resource is over, it holds no flock and the sessions of an
\* attempt that held the flock are closed; a request for the flock never
\* waits: whoever holds the flocks, every client that is not finished can
\* take its next step, so no client blocks another.
C35_NoHoldAndWait ==
    \A c \in Clients :
        /\ Cardinality(FlocksOf(c)) <= 1
        /\ FlocksOf(c) \subseteq {<<H(c), S(c)>>}
        /\ pc[c] = "idle"
              => /\ FlocksOf(c) = {}
                 /\ sess[c].stdin # "none" => sess[c] = AllClosed
        /\ pc[c] = "acquire"
              => ENABLED get_blocking_session_with_locked_slot(c)
        /\ Running(c) => ENABLED (PoolStep(c) \/ LockedSlotStep(c) \/ LockBodyStep(c))

\* c1 lost slot 0 to c2, went on to slot 1 with no flock in hand and asks
\* for the flock of slot 1 while c2 holds it
C35_Witness ==
    /\ Len(pool["c1"].attempts) = 2
    /\ pool["c1"].attempts[1].locked = "false"
    /\ pool["c1"].attempts[1].slot # pool["c1"].attempts[2].slot
    /\ pc["c1"] = "acquire"
    /\ FlocksOf("c1") = {}
    /\ flockHeld[H("c1")][S("c1")] = "c2"

\* the host.lock calls lock_resource of c has made on host h so far
AttemptsOn(c, h) ==
    {i \in 1..Len(pool[c].attempts) : pool[c].attempts[i].host = h}

\* slot s of host h is in the list lock_resource of c got from
\* available_slots of h
Scanned(c, h, s) ==
    \E r \in 1..Len(pool[c].resources) :
        /\ pool[c].resources[r].host = h
        /\ s \in Range(pool[c].resources[r].slots)

\* C36: lock_resource does a bounded amount of work. On each host of the pool
\* it runs is_operational at most once (one mkdir) and available_slots at
\* most once (at most two reads per slot), so it opens at most two sessions
\* per host besides the two of each host.lock; on other hosts it does
\* nothing; it calls host.lock at most once for each (host, slot), and only
\* for slots its scan listed; the slot of a returned lease is one of them
\* and lies in 0 .. host.slots - 1.
C36_BoundedWork ==
    \A c \in Clients :
        pool[c].caller = "lock_resource"
        => /\ \A h \in Hosts :
                 /\ h \notin poolHosts
                       => \A i \in 1..Len(log[c]) : log[c][i].host # h
                 /\ CountOn(c, h, {"mkdir"}) <= 1
                 /\ CountOn(c, h, {"connect"})
                       <= 2 + 2 * Cardinality(AttemptsOn(c, h))
                 /\ CountOn(c, h, {"read"})
                       <= 2 * slots(h) + 3 * Cardinality(AttemptsOn(c, h))
           /\ \A r1, r2 \in 1..Len(pool[c].resources) :
                 pool[c].resources[r1].host = pool[c].resources[r2].host
                 => r1 = r2
           /\ \A i, j \in 1..Len(pool[c].attempts) :
                 LET t == pool[c].attempts[i]
                     u == pool[c].attempts[j]
                 IN  /\ Scanned(c, t.host, t.slot)
                     /\ t.host \in poolHosts
                     /\ t.slot \in SlotIds(t.host)
                     /\ (t.host = u.host /\ t.slot = u.slot) => i = j
           /\ pool[c].ret = "lease"
                 => /\ Scanned(c, pool[c].lease.host, pool[c].lease.slot)
                    /\ pool[c].lease.host \in poolHosts
                    /\ pool[c].lease.slot \in 0..(slots(pool[c].lease.host) - 1)
                    /\ LET t == pool[c].attempts[Len(pool[c].attempts)]
                       IN  pool[c].lease = [host |-> t.host, slot |-> t.slot]

\* lock_resource scanned both hosts, failed to lock the first slot it tried
\* and returned a lease on the second one
C36_Witness ==
    \E c \in Clients :
        /\ PoolDone(c)
        /\ Leased(c)
        /\ Len(pool[c].attempts) = 2
        /\ \A h \in Hosts : CountOn(c, h, {"mkdir"}) = 1

\* the slots of the pool whose file is not what it was at the start
Changed == {hs \in ConfiguredSlots : slotFile[hs[1]][hs[2]] # slot0[hs[1]][hs[2]]}

\* C37: no orphaned occupancy. When lock_resource is over, every host.lock
\* of it that returned false has left its slot file as it found it; if
\* lock_resource returned null no slot file has changed, and if it returned
\* a lease the leased slot is the only one that has.
C37_NoOrphanedOccupancy ==
    \A c \in Clients :
        PoolDone(c)
        => /\ \A i \in 1..Len(pool[c].attempts) :
                 LET t == pool[c].attempts[i]
                 IN  t.locked = "false" => slotFile[t.host][t.slot] = t.pre
           /\ hist[c][callNo[c]] = "null" => Changed = {}
           /\ hist[c][callNo[c]] = "lease"
                 => Changed = {<<pool[c].lease.host, pool[c].lease.slot>>}

\* RemoteHost.prid_in_slot: None for a slot id out of range, else the prid
\* HostSlot parses from the slot file, read in a session of its own
prid_in_slot(h, s) ==
    IF ~is_valid_slot_id(h, s) THEN None ELSE data(h, s).prid

\* C38: a lock call that returned true has established ownership, whatever
\* its prid (empty, or with "@" in it, included): as long as nothing else
\* has worked on the slot, the slot file reads as occupied and valid, is not
\* listed by available_slots, and prid_in_slot gives the prid of the call.
C38_LockEstablishesOwnership ==
    \A c \in Clients :
        (FinishedCall(c, "lock") /\ result[c] = "true")
        => /\ ValidOccupied(slotFile[H(c)][S(c)])
           /\ ~Available(slotFile[H(c)][S(c)])
           /\ prid_in_slot(H(c), S(c)) = Str(args[c].prid)

\* Client c1 holds a lease on slot 0 of host 1, whose file holds its payload,
\* and calls LockedResource.unlock while client c2 locks or unlocks the same
\* slot with prid "b".
InitRelease ==
    /\ slotFile = FilesWith(<<"a", "@", "t1">>)
    /\ poolHosts = Hosts
    /\ \E op \in Ops :
          plan = [c \in Clients |->
                    IF c = "c1" THEN <<Call("LockedResource.unlock", 1, 0, <<"a">>)>>
                    ELSE <<Call(op, 1, 0, <<"b">>)>>]
    /\ InitCommon

NextRelease == \E c \in Clients : HostCallStep(c) \/ LeaseStep(c)

SpecRelease == InitRelease /\ [][NextRelease]_vars

\* LockedResource.unlock of c has returned
Released(c) ==
    Done(c) /\ plan[c][callNo[c]].op = "LockedResource.unlock"

\* C39: release takes effect under contention. Once LockedResource.unlock
\* has returned for a lease whose slot held the payload of the lease's prid,
\* the slot does not hold that payload any more, and as long as no other
\* client has written it the slot file is empty and the slot is one
\* available_slots lists; this even when no SSH command failed and another
\* client held the flock of the slot at each attempt to acquire it.
C39_ReleaseTakesEffect ==
    \A c \in Clients :
        (Released(c) /\ HeldBySame(pre[c], args[c].prid) /\ faults = 0)
        => /\ ~HeldBySame(slotFile[H(c)][S(c)], args[c].prid)
           /\ NoWrite(Other(c))
                 => /\ slotFile[H(c)][S(c)] = <<>>
                    /\ Available(slotFile[H(c)][S(c)])

====
